---- MODULE Spec2Model ----
(***************************************************************************)
(* panka: the rope text buffer (buffer/rope.go) with its incremental line  *)
(* index, and the editor's undo/redo engine (editor/*.go) on top of it.    *)
(*                                                                         *)
(* Runes are one-character strings.  Go slices and the line index are      *)
(* 0-based in the source; At and Slice give the 0-based view of a TLA+     *)
(* sequence so that indices read as in the source.                         *)
(***************************************************************************)
EXTENDS Integers, Sequences, FiniteSets, TLC

(* ------------------------------ bounds -------------------------------- *)

\* Longest document the model lets an operation grow the buffer to.
MaxLen == 5

\* The source's maxLeafSize is 1024; the model divides it by LeafScale so
\* that leaf splits and rebalances happen in documents of MaxLen runes.
LeafScale == 512

(* ----------------------------- constants ------------------------------ *)

NL == "\n"
CR == "\r"

\* Runes the operations are exercised with.
Runes == {"a", NL}

\* The same with a second ordinary rune, for the insert-only runs.
MoreRunes == {"a", "b", NL}

maxLeafSize == 1024 \div LeafScale

rebalanceThreshold == 3

(* ------------------------- 0-based sequences -------------------------- *)

At(s, i) == s[i + 1]

\* Go's s[lo:hi]
Slice(s, lo, hi) == SubSeq(s, lo + 1, hi)

min(a, b) == IF a < b THEN a ELSE b

max(a, b) == IF a > b THEN a ELSE b

(* ------------------------------- node --------------------------------- *)

\* A leaf node: data is non-nil (possibly empty), no children.
Leaf(d) == [leaf |-> TRUE, data |-> d]

\* An internal node: data is nil, weight is the cached length of left.
Inner(l, r, w) == [leaf |-> FALSE, left |-> l, right |-> r, weight |-> w]

isLeaf(n) == n.leaf

RECURSIVE length(_)
length(n) ==
  IF isLeaf(n) THEN Len(n.data)
  ELSE n.weight + length(n.right)

\* node.runeAt as a mutant would have it: the descent into the right child
\* keeps the index it was given.
RECURSIVE runeAtNoShift(_, _)
runeAtNoShift(n, index) ==
  IF isLeaf(n)
  THEN IF index < 0 \/ index >= Len(n.data)
       THEN [ru |-> "", err |-> TRUE]
       ELSE [ru |-> At(n.data, index), err |-> FALSE]
  ELSE IF index < n.weight
       THEN runeAtNoShift(n.left, index)
       ELSE runeAtNoShift(n.right, index)

\* node.runeAt: the rune at index, or an internal error.
RECURSIVE runeAt(_, _)
runeAt(n, index) ==
  IF isLeaf(n)
  THEN IF index < 0 \/ index >= Len(n.data)
       THEN [ru |-> "", err |-> TRUE]
       ELSE [ru |-> At(n.data, index), err |-> FALSE]
  ELSE IF index < n.weight
       THEN runeAt(n.left, index)
       ELSE runeAt(n.right, index - n.weight)

\* The leaf case of node.insert with its split, as a mutant would have it:
\* the split drops the rune at the midpoint.
insertLeafLossy(d, index, ru) ==
  LET split(nd, mid) ==
        IF Len(nd) > maxLeafSize
        THEN Inner(Leaf(Slice(nd, 0, mid)), Leaf(Slice(nd, mid + 1, Len(nd))), mid)
        ELSE Leaf(nd)
      spliced(nd) == split(nd, Len(nd) \div 2)
  IN spliced(Slice(d, 0, index) \o <<ru>> \o Slice(d, index, Len(d)))

\* The leaf case of node.insert: splice the rune in, split at the midpoint
\* when the leaf has grown past maxLeafSize.
insertLeaf(d, index, ru) ==
  LET split(nd, mid) ==
        IF Len(nd) > maxLeafSize
        THEN Inner(Leaf(Slice(nd, 0, mid)), Leaf(Slice(nd, mid, Len(nd))), mid)
        ELSE Leaf(nd)
      spliced(nd) == split(nd, Len(nd) \div 2)
  IN spliced(Slice(d, 0, index) \o <<ru>> \o Slice(d, index, Len(d)))

\* node.insert as a mutant would have it: an insertion into the left
\* subtree leaves the weight as it was.
RECURSIVE insertKeepWeight(_, _, _)
insertKeepWeight(n, index, ru) ==
  IF isLeaf(n) THEN insertLeaf(n.data, index, ru)
  ELSE IF index < n.weight
       THEN Inner(insertKeepWeight(n.left, index, ru), n.right, n.weight)
       ELSE Inner(n.left, insertKeepWeight(n.right, index - n.weight, ru), n.weight)

RECURSIVE insert(_, _, _)
insert(n, index, ru) ==
  IF isLeaf(n) THEN insertLeaf(n.data, index, ru)
  ELSE IF index < n.weight
       THEN Inner(insert(n.left, index, ru), n.right, n.weight + 1)
       ELSE Inner(n.left, insert(n.right, index - n.weight, ru), n.weight)

\* The leaf case of node.delete as a mutant would have it: the rune after
\* the addressed one is removed when there is one.
deleteLeafOffByOne(d, index) ==
  IF index + 1 < Len(d)
  THEN Leaf(Slice(d, 0, index + 1) \o Slice(d, index + 2, Len(d)))
  ELSE Leaf(Slice(d, 0, index) \o Slice(d, index + 1, Len(d)))

\* The leaf case of node.delete: splice the rune out.
deleteLeaf(d, index) ==
  Leaf(Slice(d, 0, index) \o Slice(d, index + 1, Len(d)))

\* node.delete as a mutant would have it: a child that became empty stays
\* in place.
RECURSIVE deleteKeepsEmpty(_, _)
deleteKeepsEmpty(n, index) ==
  IF isLeaf(n) THEN deleteLeaf(n.data, index)
  ELSE IF index < n.weight
  THEN Inner(deleteKeepsEmpty(n.left, index), n.right, n.weight - 1)
  ELSE Inner(n.left, deleteKeepsEmpty(n.right, index - n.weight), n.weight)

\* node.delete: after the recursive removal a child that became empty is
\* dropped and its sibling promoted.
RECURSIVE delete(_, _)
delete(n, index) ==
  LET joined(l, r, w) ==
        IF length(l) = 0 THEN r
        ELSE IF length(r) = 0 THEN l
        ELSE Inner(l, r, w)
  IN IF isLeaf(n) THEN deleteLeaf(n.data, index)
     ELSE IF index < n.weight
     THEN joined(delete(n.left, index), n.right, n.weight - 1)
     ELSE joined(n.left, delete(n.right, index - n.weight), n.weight)

\* node.writeTo into a sink that accepts every write (strings.Builder):
\* the leaves' runes in document order.
RECURSIVE writeTo(_)
writeTo(n) ==
  IF isLeaf(n) THEN n.data
  ELSE writeTo(n.left) \o writeTo(n.right)

\* node.rebuildLineIndexHelper: the line starts this subtree appends, given
\* the global offset of its first rune; the right subtree's offset is taken
\* from the cached weight.
RECURSIVE rebuildLineIndexHelper(_, _)
rebuildLineIndexHelper(n, offset) ==
  IF isLeaf(n)
  THEN LET F[i \in 0..Len(n.data)] ==
             IF i = 0 THEN <<>>
             ELSE IF n.data[i] = NL THEN Append(F[i - 1], offset + (i - 1) + 1)
                  ELSE F[i - 1]
       IN F[Len(n.data)]
  ELSE rebuildLineIndexHelper(n.left, offset)
         \o rebuildLineIndexHelper(n.right, offset + n.weight)

\* node.sliceHelper as a mutant would have it: a range that overlaps the
\* left child is taken from the left child alone.
RECURSIVE sliceHelperLeftOnly(_, _, _, _)
sliceHelperLeftOnly(n, startIndex, endIndex, offset) ==
  LET cut(sliceStart, sliceEnd) ==
        IF sliceStart < sliceEnd THEN Slice(n.data, sliceStart, sliceEnd) ELSE <<>>
      children(leftEnd) ==
        IF startIndex < leftEnd /\ offset < endIndex
        THEN sliceHelperLeftOnly(n.left, startIndex, endIndex, offset)
        ELSE IF endIndex > leftEnd /\ leftEnd < endIndex
             THEN sliceHelperLeftOnly(n.right, startIndex, endIndex, leftEnd)
             ELSE <<>>
  IN IF isLeaf(n)
     THEN cut(max(0, startIndex - offset), min(Len(n.data), endIndex - offset))
     ELSE children(offset + n.weight)

\* node.sliceHelper: the runes of [startIndex, endIndex) found in this
\* subtree, whose first rune has global offset `offset`.
RECURSIVE sliceHelper(_, _, _, _)
sliceHelper(n, startIndex, endIndex, offset) ==
  LET cut(sliceStart, sliceEnd) ==
        IF sliceStart < sliceEnd THEN Slice(n.data, sliceStart, sliceEnd) ELSE <<>>
      children(leftEnd) ==
        (IF startIndex < leftEnd /\ offset < endIndex
         THEN sliceHelper(n.left, startIndex, endIndex, offset) ELSE <<>>)
        \o
        (IF endIndex > leftEnd /\ leftEnd < endIndex
         THEN sliceHelper(n.right, startIndex, endIndex, leftEnd) ELSE <<>>)
  IN IF isLeaf(n)
     THEN cut(max(0, startIndex - offset), min(Len(n.data), endIndex - offset))
     ELSE children(offset + n.weight)

(* ------------------------------- Rope --------------------------------- *)
\* A Rope value is [root, lineStarts].  NewRope always allocates the root
\* and no operation sets it to nil, so the root == nil branches of the
\* source are never taken and a Rope always has a root node.

rebuildLineIndex(rt) == <<0>> \o rebuildLineIndexHelper(rt, 0)

NewRope(initialText) ==
  LET rooted(rt) == [root |-> rt, lineStarts |-> rebuildLineIndex(rt)]
  IN rooted(Leaf(initialText))

LineCount(r) == IF Len(r.lineStarts) = 0 THEN 1 ELSE Len(r.lineStarts)

\* Rope.RuneAt as a mutant would have it: whatever the offset, the rune read
\* is the first of the document.
RuneAtFirst(r, index) ==
  IF index < 0 \/ index >= length(r.root)
  THEN [ru |-> "", err |-> TRUE]
  ELSE runeAt(r.root, 0)

\* Rope.RuneAt
RuneAt(r, index) ==
  IF index < 0 \/ index >= length(r.root)
  THEN [ru |-> "", err |-> TRUE]
  ELSE runeAt(r.root, index)

\* Rope.getIndex as a mutant would have it: the length of a line that is
\* not the last counts its terminating newline.
getIndexCountsNewline(r, line, col) ==
  LET clamped(startIndex, lineCharLength, c) ==
        [index |-> startIndex + (IF c > lineCharLength THEN lineCharLength ELSE c),
         err |-> FALSE]
      from(startIndex) ==
        clamped(startIndex,
                IF line + 1 < Len(r.lineStarts)
                THEN At(r.lineStarts, line + 1) - startIndex
                ELSE length(r.root) - startIndex,
                IF col < 0 THEN 0 ELSE col)
  IN IF line < 0 THEN [index |-> 0, err |-> TRUE]
     ELSE IF line >= Len(r.lineStarts) THEN [index |-> length(r.root), err |-> TRUE]
     ELSE from(At(r.lineStarts, line))

\* Rope.getIndex: (line, col) to a global offset; the column is clamped.
getIndex(r, line, col) ==
  LET clamped(startIndex, lineCharLength, c) ==
        [index |-> startIndex + (IF c > lineCharLength THEN lineCharLength ELSE c),
         err |-> FALSE]
      from(startIndex) ==
        clamped(startIndex,
                IF line + 1 < Len(r.lineStarts)
                THEN (At(r.lineStarts, line + 1) - startIndex) - 1
                ELSE length(r.root) - startIndex,
                IF col < 0 THEN 0 ELSE col)
  IN IF line < 0 THEN [index |-> 0, err |-> TRUE]
     ELSE IF line >= Len(r.lineStarts) THEN [index |-> length(r.root), err |-> TRUE]
     ELSE from(At(r.lineStarts, line))

\* sort.SearchInts: the smallest 0-based i with a[i] >= x, Len(a) if none.
SearchInts(a, x) ==
  LET least(hits) ==
        IF hits = {} THEN Len(a)
        ELSE CHOOSE i \in hits : \A j \in hits : i <= j
  IN least({i \in 0..(Len(a) - 1) : At(a, i) >= x})

\* Rope.findLine: the line containing the global offset index.
findLine(ls, index) ==
  LET found(i) ==
        IF i = 0 THEN 0
        ELSE IF i < Len(ls) /\ At(ls, i) = index THEN i
        ELSE i - 1
  IN found(SearchInts(ls, index))

\* Entries after 0-based position `line` shifted by d.
ShiftAfter(ls, line, d) ==
  [i \in 1..Len(ls) |-> IF i - 1 >= line + 1 THEN ls[i] + d ELSE ls[i]]

\* updateLineIndexOnInsert as a mutant would have it: the entries of the
\* following lines are not shifted.
updateLineIndexOnInsertNoShift(ls, index, ru) ==
  LET shifted(line, sh) ==
        IF ru = NL
        THEN Slice(sh, 0, line + 1) \o <<index + 1>> \o Slice(sh, line + 1, Len(sh))
        ELSE sh
      at(line) == shifted(line, ls)
  IN at(findLine(ls, index))

updateLineIndexOnInsert(ls, index, ru) ==
  LET shifted(line, sh) ==
        IF ru = NL
        THEN Slice(sh, 0, line + 1) \o <<index + 1>> \o Slice(sh, line + 1, Len(sh))
        ELSE sh
      at(line) == shifted(line, ShiftAfter(ls, line, 1))
  IN at(findLine(ls, index))

\* updateLineIndexOnDelete as a mutant would have it: the entry of the
\* joined line is kept when a newline is removed.
updateLineIndexOnDeleteKeepEntry(ls, index, ru) ==
  ShiftAfter(ls, findLine(ls, index), -1)

updateLineIndexOnDelete(ls, index, ru) ==
  LET at(line) ==
        ShiftAfter(IF ru = NL /\ line + 1 < Len(ls)
                   THEN Slice(ls, 0, line + 1) \o Slice(ls, line + 2, Len(ls))
                   ELSE ls,
                   line, -1)
  IN at(findLine(ls, index))

\* Rope.shouldRebalance: a root-only check of the two subtree sizes.
\* shouldRebalance as a mutant would have it: the threshold is one higher.
shouldRebalanceLate(r) ==
  LET unbalanced(leftLen, rightLen) ==
        IF leftLen = 0 \/ rightLen = 0 THEN FALSE
        ELSE max(leftLen, rightLen) > (rebalanceThreshold + 1) * min(leftLen, rightLen)
  IN IF isLeaf(r.root) THEN FALSE
     ELSE unbalanced(r.root.weight, length(r.root) - r.root.weight)

shouldRebalance(r) ==
  LET unbalanced(leftLen, rightLen) ==
        IF leftLen = 0 \/ rightLen = 0 THEN FALSE
        ELSE max(leftLen, rightLen) > rebalanceThreshold * min(leftLen, rightLen)
  IN IF isLeaf(r.root) THEN FALSE
     ELSE unbalanced(r.root.weight, length(r.root) - r.root.weight)

\* Rope.rebalance as a mutant would have it: the tree is flattened and the
\* line index is reset without the scan.
rebalanceNoScan(r) ==
  LET flat(rt) == [root |-> rt, lineStarts |-> <<0>>]
  IN flat(Leaf(writeTo(r.root)))

\* Rope.rebalance: flatten into one leaf and rescan the line index.
rebalance(r) ==
  LET flat(rt) == [root |-> rt, lineStarts |-> rebuildLineIndex(rt)]
  IN flat(Leaf(writeTo(r.root)))

\* Rope.Insert as a mutant would have it: the rune is inserted at the offset
\* getIndex returned before its error is looked at.
InsertBeforeCheck(r, line, col, ru) ==
  LET balanced(r1, err) ==
        [r |-> IF shouldRebalance(r1) THEN rebalance(r1) ELSE r1, err |-> err]
      at(gi) ==
        balanced([root |-> insert(r.root, gi.index, ru),
                  lineStarts |-> updateLineIndexOnInsert(r.lineStarts, gi.index, ru)],
                 gi.err)
  IN at(getIndex(r, line, col))

\* Rope.Insert: the rope after the call and whether it returned an error.
Insert(r, line, col, ru) ==
  LET balanced(r1) ==
        [r |-> IF shouldRebalance(r1) THEN rebalance(r1) ELSE r1, err |-> FALSE]
      at(gi) ==
        IF gi.err THEN [r |-> r, err |-> TRUE]
        ELSE balanced([root |-> insert(r.root, gi.index, ru),
                       lineStarts |->
                         updateLineIndexOnInsert(r.lineStarts, gi.index, ru)])
  IN at(getIndex(r, line, col))

\* Rope.Delete as a mutant would have it: an offset of 0 is not refused, and
\* the rune removed is the one at max(index - 1, 0).
DeleteFirstAtStart(r, line, col) ==
  LET balanced(r1) ==
        [r |-> IF shouldRebalance(r1) THEN rebalance(r1) ELSE r1, err |-> FALSE]
      removed(deleteIndex, ra) ==
        IF ra.err THEN [r |-> r, err |-> TRUE]
        ELSE balanced([root |-> delete(r.root, deleteIndex),
                       lineStarts |->
                         updateLineIndexOnDelete(r.lineStarts, deleteIndex, ra.ru)])
      at(gi) ==
        IF gi.err THEN [r |-> r, err |-> TRUE]
        ELSE removed(max(gi.index - 1, 0), RuneAt(r, max(gi.index - 1, 0)))
  IN IF col = 0 /\ line = 0 THEN [r |-> r, err |-> TRUE]
     ELSE at(getIndex(r, line, col))

\* Rope.Delete: removes the rune before (line, col).
Delete(r, line, col) ==
  LET balanced(r1) ==
        [r |-> IF shouldRebalance(r1) THEN rebalance(r1) ELSE r1, err |-> FALSE]
      removed(deleteIndex, ra) ==
        IF ra.err THEN [r |-> r, err |-> TRUE]
        ELSE balanced([root |-> delete(r.root, deleteIndex),
                       lineStarts |->
                         updateLineIndexOnDelete(r.lineStarts, deleteIndex, ra.ru)])
      at(gi) ==
        IF gi.err \/ gi.index = 0 THEN [r |-> r, err |-> TRUE]
        ELSE removed(gi.index - 1, RuneAt(r, gi.index - 1))
  IN IF col = 0 /\ line = 0 THEN [r |-> r, err |-> TRUE]
     ELSE at(getIndex(r, line, col))

\* Rope.slice
slice(r, startIndex, endIndex) ==
  IF startIndex >= endIndex THEN <<>>
  ELSE sliceHelper(r.root, startIndex, endIndex, 0)

\* Rope.sliceRuneAt
sliceRuneAt(r, index) == RuneAt(r, index)

\* Rope.GetLine as a mutant would have it: a line number past the last line
\* is answered with the last line.
GetLineClampsLine(r, line) ==
  LET is(res, ru) == ~res.err /\ res.ru = ru
      withoutCR(startIndex, endIndex) ==
        slice(r, startIndex,
              IF endIndex > startIndex /\ is(sliceRuneAt(r, endIndex - 1), CR)
              THEN endIndex - 1 ELSE endIndex)
      withoutNL(startIndex, endIndex) ==
        IF endIndex > startIndex /\ is(sliceRuneAt(r, endIndex - 1), NL)
        THEN withoutCR(startIndex, endIndex - 1)
        ELSE slice(r, startIndex, endIndex)
      lineAt(l) ==
        withoutNL(At(r.lineStarts, l),
                  IF l + 1 < Len(r.lineStarts)
                  THEN At(r.lineStarts, l + 1)
                  ELSE length(r.root))
  IN IF line < 0 THEN <<>>
     ELSE lineAt(min(line, Len(r.lineStarts) - 1))

\* Rope.GetLine: the line without its '\n' and without a '\r' before it.
GetLine(r, line) ==
  LET is(res, ru) == ~res.err /\ res.ru = ru
      withoutCR(startIndex, endIndex) ==
        slice(r, startIndex,
              IF endIndex > startIndex /\ is(sliceRuneAt(r, endIndex - 1), CR)
              THEN endIndex - 1 ELSE endIndex)
      withoutNL(startIndex, endIndex) ==
        IF endIndex > startIndex /\ is(sliceRuneAt(r, endIndex - 1), NL)
        THEN withoutCR(startIndex, endIndex - 1)
        ELSE slice(r, startIndex, endIndex)
  IN IF line < 0 \/ line >= Len(r.lineStarts) THEN <<>>
     ELSE withoutNL(At(r.lineStarts, line),
                    IF line + 1 < Len(r.lineStarts)
                    THEN At(r.lineStarts, line + 1)
                    ELSE length(r.root))

\* Rope.WriteTo with a sink that never fails: the document content.
WriteTo(r) == writeTo(r.root)

(* ------------------- reference text (plain sequence) ------------------ *)
\* What the claims compare the rope with: the same edits applied to a plain
\* sequence of runes, with line starts found by scanning it.

\* Offsets (0-based) at which a line starts in text t.
RefLineStarts(t) ==
  LET F[i \in 0..Len(t)] ==
        IF i = 0 THEN <<0>>
        ELSE IF t[i] = NL THEN Append(F[i - 1], i) ELSE F[i - 1]
  IN F[Len(t)]

NewlineCount(t) == Cardinality({i \in 1..Len(t) : t[i] = NL})

\* Runes of line `line` of t before its terminating newline.
RefLineLen(t, line) ==
  LET ls == RefLineStarts(t)
  IN IF line + 1 < Len(ls) THEN At(ls, line + 1) - At(ls, line) - 1
     ELSE Len(t) - At(ls, line)

\* Global offset of (line, col) in t for an existing line, col clamped.
RefIndex(t, line, col) ==
  At(RefLineStarts(t), line) + max(0, min(col, RefLineLen(t, line)))

InsertAt(t, i, ru) == Slice(t, 0, i) \o <<ru>> \o Slice(t, i, Len(t))

RemoveAt(t, i) == Slice(t, 0, i) \o Slice(t, i + 1, Len(t))

(* ------------------------------- state -------------------------------- *)

VARIABLES
  buffer,      \* a Rope used directly: [root, lineStarts]
  call,        \* the last buffer call made directly: its arguments and outcome
  before,      \* WriteTo output and lineStarts just before that call
  ref          \* the reference text: the same calls applied to a plain sequence

ropeVars == <<buffer, call, before, ref>>

R == buffer

\* Longest text a document is constructed from.
MaxInitLen == 2

RECURSIVE SeqsUpTo(_, _)
SeqsUpTo(S, n) ==
  IF n = 0 THEN {<<>>}
  ELSE LET shorter == SeqsUpTo(S, n - 1)
       IN shorter \cup {Append(t, x) : t \in {u \in shorter : Len(u) = n - 1}, x \in S}

InitTexts == SeqsUpTo(Runes, MaxInitLen)

NoCall == [op |-> "NewRope", line |-> 0, col |-> 0, ru |-> "", err |-> FALSE]

\* The rope state after NewRope(text).
RopeIs(text) ==
  /\ buffer = NewRope(text)
  /\ call = NoCall
  /\ before = [text |-> text, lineStarts |-> NewRope(text).lineStarts]
  /\ ref = text

\* Line and column arguments the calls are exercised with: every line of
\* the document and the lines just outside on each side; for a line, every
\* column of it and the columns just outside on each side.
LineArgs == -1..Len(buffer.lineStarts)

ColArgs(line) ==
  IF line \in 0..(Len(buffer.lineStarts) - 1)
  THEN -1..(Len(GetLine(R, line)) + 1)
  ELSE {0, 1}

(* ------------------------------ Editor -------------------------------- *)
\* Handlers are operators on an Editor value e, a record of the fields of
\* struct Editor that the undo engine and the edit handlers read or write.
\* Two further fields record what a handler did for the claims to read:
\*   replayFailed     a buffer call made by performUndo/performRedo in this
\*                    event returned an error,
\*   replayContinued  a later replayed call of the same event succeeded.
\* panicked is set where the Go runtime would panic (an index out of range);
\* the process dies there and handles no further input.

typeGroupThreshold == 900

backspaceThreshold == 900

deleteThreshold == 900

\* Editor.extraCursorHeight is initialised to 0 and only ever assigned 0, so
\* getMultiCursorRange always returns the cursor line alone.
extraCursorHeight == 0

opEntry(il, ic, dl, dc, ru) ==
  [insertLine |-> il, insertCol |-> ic, delLine |-> dl, delCol |-> dc, r |-> ru]

undoAction(isInsert, ops, groupID, isBackspace) ==
  [isInsert |-> isInsert, ops |-> ops, groupID |-> groupID, isBackspace |-> isBackspace]

\* NewEditor: the editor on a document loaded from a file with this content.
NewEditor(content) ==
  [buffer |-> NewRope(content),
   cursorX |-> 0, cursorY |-> 0,
   undoStack |-> <<>>, redoStack |-> <<>>,
   selectionActive |-> FALSE, selectionAnchorX |-> 0, selectionAnchorY |-> 0,
   undoGrouping |-> FALSE, currentGroupID |-> 0, lastGroupID |-> 1,
   typingEntries |-> <<>>, typingActive |-> FALSE,
   backspaceEntries |-> <<>>, backspaceActive |-> FALSE,
   deleteEntries |-> <<>>, deleteActive |-> FALSE,
   lastDeleteTimeSet |-> FALSE,
   statusMessage |-> "",
   showLineNumbers |-> FALSE, showNonPrintable |-> FALSE,
   quit |-> FALSE,
   panicked |-> FALSE,
   replayFailed |-> FALSE, replayContinued |-> FALSE]

setStatusMessage(e, msg) == [e EXCEPT !.statusMessage = msg]

beginUndoGroup(e) ==
  [e EXCEPT !.undoGrouping = TRUE,
            !.currentGroupID = e.lastGroupID,
            !.lastGroupID = e.lastGroupID + 1]

endUndoGroup(e) == [e EXCEPT !.undoGrouping = FALSE]

\* The groupID a pushed action gets: currentGroupID inside a group, else 0.
\* As a mutant would have it: always the current group's ID.
pushedGroupIDAlways(e) == e.currentGroupID

pushedGroupID(e) == IF e.undoGrouping THEN e.currentGroupID ELSE 0

pushUndoInsertBlock(e, entries) ==
  IF Len(entries) = 0 THEN e
  ELSE [e EXCEPT !.undoStack =
          Append(@, undoAction(TRUE, entries, pushedGroupID(e), FALSE))]

pushUndoDeleteBlock(e, entries, isBackspace) ==
  IF Len(entries) = 0 THEN e
  ELSE [e EXCEPT !.undoStack =
          Append(@, undoAction(FALSE, entries, pushedGroupID(e), isBackspace))]

pushUndoDeleteIfExternalGrouping(e, line, col, ru) ==
  [e EXCEPT !.undoStack =
     Append(@, undoAction(FALSE, <<opEntry(line, col, 0, 0, ru)>>, pushedGroupID(e), FALSE))]

flushTypingGroup(e) ==
  IF ~e.typingActive THEN e
  ELSE [pushUndoInsertBlock(e, e.typingEntries)
          EXCEPT !.typingEntries = <<>>, !.typingActive = FALSE]

flushBackspaceGroup(e) ==
  IF ~e.backspaceActive THEN e
  ELSE [pushUndoDeleteBlock(e, e.backspaceEntries, TRUE)
          EXCEPT !.backspaceEntries = <<>>, !.backspaceActive = FALSE]

flushTypingAndBackspaceIfNeeded(e) == flushBackspaceGroup(flushTypingGroup(e))

\* flushDeleteGroup as a mutant would have it: the pending batch is
\* discarded instead of pushed.
flushDeleteGroupDrops(e) ==
  IF ~e.deleteActive THEN e
  ELSE [e EXCEPT !.deleteEntries = <<>>, !.deleteActive = FALSE]

flushDeleteGroup(e) ==
  IF ~e.deleteActive THEN e
  ELSE [pushUndoDeleteBlock(e, e.deleteEntries, FALSE)
          EXCEPT !.deleteEntries = <<>>, !.deleteActive = FALSE]

flushEditGroups(e) == flushDeleteGroup(flushBackspaceGroup(flushTypingGroup(e)))

\* e.buffer.Insert / e.buffer.Delete with the returned error discarded.
bufInsert(e, line, col, ru) == [e EXCEPT !.buffer = Insert(e.buffer, line, col, ru).r]

bufDelete(e, line, col) == [e EXCEPT !.buffer = Delete(e.buffer, line, col).r]

lineLenOf(e, y) == Len(GetLine(e.buffer, y))

clampCursorX(e) ==
  LET lineLen == IF e.cursorY < LineCount(e.buffer) THEN lineLenOf(e, e.cursorY) ELSE 0
  IN IF e.cursorX > lineLen THEN [e EXCEPT !.cursorX = lineLen] ELSE e

getRuneAt(e, y, x) ==
  IF y >= LineCount(e.buffer) THEN ""
  ELSE IF x >= lineLenOf(e, y) THEN ""
  ELSE At(GetLine(e.buffer, y), x)

getSelectionCoords(e) ==
  IF e.selectionAnchorY < e.cursorY
     \/ (e.selectionAnchorY = e.cursorY /\ e.selectionAnchorX < e.cursorX)
  THEN [startY |-> e.selectionAnchorY, startX |-> e.selectionAnchorX,
        endY |-> e.cursorY, endX |-> e.cursorX]
  ELSE [startY |-> e.cursorY, startX |-> e.cursorX,
        endY |-> e.selectionAnchorY, endX |-> e.selectionAnchorX]

(* ---- performUndo / performRedo / undo / redo ---- *)

\* A replayed e.buffer.Delete: the error is discarded by the source; the
\* record fields note that it happened and whether replay went on.
replayDelete(e, line, col) ==
  LET replayed(res) ==
        [e EXCEPT !.buffer = res.r,
                  !.replayContinued = @ \/ (e.replayFailed /\ ~res.err),
                  !.replayFailed = @ \/ res.err]
  IN replayed(Delete(e.buffer, line, col))

replayInsert(e, line, col, ru) ==
  LET replayed(res) ==
        [e EXCEPT !.buffer = res.r,
                  !.replayContinued = @ \/ (e.replayFailed /\ ~res.err),
                  !.replayFailed = @ \/ res.err]
  IN replayed(Insert(e.buffer, line, col, ru))

\* for i := len(ops)-1; i >= 0; i-- { e.buffer.Delete(ops[i].delLine, ops[i].delCol) }
RECURSIVE undoInsertOps(_, _, _)
undoInsertOps(e, ops, i) ==
  IF i < 0 THEN e
  ELSE undoInsertOps(replayDelete(e, At(ops, i).delLine, At(ops, i).delCol), ops, i - 1)

\* for _, op := range ops { e.buffer.Insert(op.insertLine, op.insertCol, op.r) }
RECURSIVE replayInsertOps(_, _, _)
replayInsertOps(e, ops, i) ==
  IF i >= Len(ops) THEN e
  ELSE replayInsertOps(
         replayInsert(e, At(ops, i).insertLine, At(ops, i).insertCol, At(ops, i).r),
         ops, i + 1)

\* for i := len(ops)-1; i >= 0; i-- { e.buffer.Delete(ops[i].insertLine, ops[i].insertCol+1) }
RECURSIVE redoDeleteOps(_, _, _)
redoDeleteOps(e, ops, i) ==
  IF i < 0 THEN e
  ELSE redoDeleteOps(replayDelete(e, At(ops, i).insertLine, At(ops, i).insertCol + 1),
                     ops, i - 1)

\* The cursor after the last record of a block: the line below for '\n'.
cursorAfter(e, last) ==
  IF last.r = NL
  THEN [e EXCEPT !.cursorY = last.insertLine + 1, !.cursorX = 0]
  ELSE [e EXCEPT !.cursorY = last.insertLine, !.cursorX = last.insertCol + 1]

cursorAtFirst(e, first) ==
  [e EXCEPT !.cursorY = first.insertLine, !.cursorX = first.insertCol]

\* performUndo as a mutant would have it: after an insertion is undone the
\* cursor is put after the block's last record, as performRedo does.
performUndoCursorAfter(e, action) ==
  LET ops == action.ops
  IN IF action.isInsert
     THEN LET e1 == undoInsertOps(e, ops, Len(ops) - 1)
          IN IF Len(ops) > 0 THEN cursorAfter(e1, At(ops, Len(ops) - 1)) ELSE e1
     ELSE LET e1 == replayInsertOps(e, ops, 0)
          IN IF Len(ops) > 0
             THEN IF action.isBackspace
                  THEN cursorAfter(e1, At(ops, Len(ops) - 1))
                  ELSE cursorAtFirst(e1, At(ops, 0))
             ELSE e1

performUndo(e, action) ==
  LET ops == action.ops
  IN IF action.isInsert
     THEN LET e1 == undoInsertOps(e, ops, Len(ops) - 1)
          IN IF Len(ops) > 0 THEN cursorAtFirst(e1, At(ops, 0)) ELSE e1
     ELSE LET e1 == replayInsertOps(e, ops, 0)
          IN IF Len(ops) > 0
             THEN IF action.isBackspace
                  THEN cursorAfter(e1, At(ops, Len(ops) - 1))
                  ELSE cursorAtFirst(e1, At(ops, 0))
             ELSE e1

performRedo(e, action) ==
  LET ops == action.ops
  IN IF action.isInsert
     THEN LET e1 == replayInsertOps(e, ops, 0)
          IN IF Len(ops) > 0 THEN cursorAfter(e1, At(ops, Len(ops) - 1)) ELSE e1
     ELSE LET e1 == redoDeleteOps(e, ops, Len(ops) - 1)
          IN IF Len(ops) > 0 THEN cursorAtFirst(e1, At(ops, 0)) ELSE e1

Top(stack) == stack[Len(stack)]

Pop(stack) == SubSeq(stack, 1, Len(stack) - 1)

\* The loop of undo() as a mutant would have it: it goes on whatever the
\* groupID of the next action.
RECURSIVE undoGroupRestAnyGroup(_, _)
undoGroupRestAnyGroup(e, groupID) ==
  IF Len(e.undoStack) = 0 THEN e
  ELSE LET next == Top(e.undoStack)
       IN undoGroupRestAnyGroup(
            performUndo([e EXCEPT !.undoStack = Pop(@),
                                  !.redoStack = Append(@, next)], next),
            groupID)

\* The loop of undo(): while the top of undoStack has this groupID, move it
\* to redoStack and undo it.
RECURSIVE undoGroupRest(_, _)
undoGroupRest(e, groupID) ==
  IF Len(e.undoStack) = 0 THEN e
  ELSE LET next == Top(e.undoStack)
       IN IF next.groupID # groupID THEN e
          ELSE undoGroupRest(
                 performUndo([e EXCEPT !.undoStack = Pop(@),
                                       !.redoStack = Append(@, next)], next),
                 groupID)

undo(e0) ==
  LET flushed(e) ==
        IF Len(e.undoStack) = 0 THEN setStatusMessage(e, "Nothing to undo")
        ELSE LET action == Top(e.undoStack)
                 e1 == performUndo([e EXCEPT !.undoStack = Pop(@),
                                             !.redoStack = Append(@, action)], action)
                 e2 == IF action.groupID > 0 THEN undoGroupRest(e1, action.groupID) ELSE e1
             IN setStatusMessage(e2, "Undid last action")
  IN flushed(flushEditGroups(e0))

\* The loop of redo() as a mutant would have it: it never runs.
RECURSIVE redoGroupRestNever(_, _)
redoGroupRestNever(e, groupID) == e

RECURSIVE redoGroupRest(_, _)
redoGroupRest(e, groupID) ==
  IF Len(e.redoStack) = 0 THEN e
  ELSE LET next == Top(e.redoStack)
       IN IF next.groupID # groupID THEN e
          ELSE redoGroupRest(
                 performRedo([e EXCEPT !.redoStack = Pop(@),
                                       !.undoStack = Append(@, next)], next),
                 groupID)

\* redo() as a mutant would have it: the action popped from the redo stack
\* is replayed but not pushed on the undo stack.
redoDropsAction(e0) ==
  LET flushed(e) ==
        IF Len(e.redoStack) = 0 THEN setStatusMessage(e, "Nothing to redo")
        ELSE LET action == Top(e.redoStack)
                 e1 == performRedo([e EXCEPT !.redoStack = Pop(@)], action)
                 e2 == IF action.groupID > 0 THEN redoGroupRest(e1, action.groupID) ELSE e1
             IN setStatusMessage(e2, "Redid last action")
  IN flushed(flushEditGroups(e0))

redo(e0) ==
  LET flushed(e) ==
        IF Len(e.redoStack) = 0 THEN setStatusMessage(e, "Nothing to redo")
        ELSE LET action == Top(e.redoStack)
                 e1 == performRedo([e EXCEPT !.redoStack = Pop(@),
                                             !.undoStack = Append(@, action)], action)
                 e2 == IF action.groupID > 0 THEN redoGroupRest(e1, action.groupID) ELSE e1
             IN setStatusMessage(e2, "Redid last action")
  IN flushed(flushEditGroups(e0))


(* ---- selection delete, line delete ---- *)

\* for i := hi; i >= lo; i-- { e.buffer.Delete(line, i+1) }
RECURSIVE deleteColsDown(_, _, _, _)
deleteColsDown(e, line, hi, lo) ==
  IF hi < lo THEN e
  ELSE deleteColsDown(bufDelete(e, line, hi + 1), line, hi - 1, lo)

\* Entries for runes[from .. to-1] of a line, recorded at line `at`.
lineEntries(runes, from, to, at) ==
  IF to <= from THEN <<>>
  ELSE [k \in 1..(to - from) |-> opEntry(at, from + k - 1, 0, 0, At(runes, from + k - 1))]

\* The entries deleteSelectedText records for the lines strictly between
\* startY and endY: each line's runes and its '\n', at line startY+lineOffset.
RECURSIVE middleEntries(_, _, _, _)
middleEntries(e, y, endY, at) ==
  IF y >= endY THEN <<>>
  ELSE LET runes == GetLine(e.buffer, y)
       IN lineEntries(runes, 0, Len(runes), at)
            \o <<opEntry(at, Len(runes), 0, 0, NL)>>
            \o middleEntries(e, y + 1, endY, at + 1)

\* for y := endY-1; y > startY; y-- { Delete(y+1, 0); delete every rune of line y }
RECURSIVE deleteMiddleLines(_, _, _)
deleteMiddleLines(e, y, startY) ==
  LET joined(e1) == deleteColsDown(e1, y, lineLenOf(e1, y) - 1, 0)
  IN IF y <= startY THEN e
     ELSE deleteMiddleLines(joined(bufDelete(e, y + 1, 0)), y - 1, startY)

deleteSelectedText(e0) ==
  LET selected(e, c) ==
        LET done(ed, entries) ==
              [pushUndoDeleteBlock(ed, entries, FALSE)
                 EXCEPT !.cursorY = c.startY, !.cursorX = c.startX,
                        !.selectionActive = FALSE]
            oneLine(runes, actualEndX) ==
              done(deleteColsDown(e, c.startY, actualEndX - 1, c.startX),
                   lineEntries(runes, c.startX, actualEndX, c.startY))
            lines(firstRunes, lastRunes, actualEndX) ==
              LET lastAt == c.startY + (c.endY - c.startY)
                  entries ==
                    lineEntries(firstRunes, c.startX, Len(firstRunes), c.startY)
                      \o <<opEntry(c.startY, Len(firstRunes), 0, 0, NL)>>
                      \o middleEntries(e, c.startY + 1, c.endY, c.startY + 1)
                      \o lineEntries(lastRunes, 0, actualEndX, lastAt)
                  e1 == deleteColsDown(e, c.endY, actualEndX - 1, 0)
                  e2 == deleteMiddleLines(e1, c.endY - 1, c.startY)
                  e3 == bufDelete(e2, c.startY + 1, 0)
                  e4 == deleteColsDown(e3, c.startY, Len(firstRunes) - 1, c.startX)
              IN done(e4, entries)
        IN IF c.startY = c.endY
           THEN oneLine(GetLine(e.buffer, c.startY),
                        min(c.endX, Len(GetLine(e.buffer, c.startY))))
           ELSE lines(GetLine(e.buffer, c.startY), GetLine(e.buffer, c.endY),
                      min(c.endX, Len(GetLine(e.buffer, c.endY))))
  IN IF ~e0.selectionActive THEN e0
     ELSE selected(flushTypingAndBackspaceIfNeeded(e0), getSelectionCoords(e0))

getSelectedText(e) ==
  IF ~e.selectionActive THEN <<>>
  ELSE LET c == getSelectionCoords(e)
       IN IF c.startY = c.endY
          THEN LET runes == GetLine(e.buffer, c.startY)
                   endX   == min(c.endX, Len(runes))
                   startX == min(c.startX, Len(runes))
               IN Slice(runes, startX, endX)
          ELSE LET firstRunes == GetLine(e.buffer, c.startY)
                   lastRunes  == GetLine(e.buffer, c.endY)
                   F[y \in (c.startY)..(c.endY)] ==
                     IF y = c.startY
                     THEN (IF c.startX < Len(firstRunes)
                           THEN Slice(firstRunes, c.startX, Len(firstRunes)) ELSE <<>>)
                          \o <<NL>>
                     ELSE IF y < c.endY THEN F[y - 1] \o GetLine(e.buffer, y) \o <<NL>>
                     ELSE F[y - 1] \o Slice(lastRunes, 0, min(c.endX, Len(lastRunes)))
               IN F[c.endY]

deleteCurrentLine(e0) ==
  LET moved(e3) ==
        IF e3.cursorY >= LineCount(e3.buffer) /\ e3.cursorY > 0
        THEN [e3 EXCEPT !.cursorY = e3.cursorY - 1,
                        !.cursorX = lineLenOf(e3, e3.cursorY - 1)]
        ELSE e3
      joined(e1) ==
        IF e1.cursorY < LineCount(e1.buffer) - 1
        THEN bufDelete(e1, e1.cursorY + 1, 0) ELSE e1
      flushed(e, lineIdx, lineRunes) ==
        LET entries ==
              lineEntries(lineRunes, 0, Len(lineRunes), lineIdx)
                \o (IF e.cursorY < LineCount(e.buffer) - 1
                    THEN <<opEntry(lineIdx, Len(lineRunes), 0, 0, NL)>> ELSE <<>>)
            e1 == deleteColsDown(e, lineIdx, Len(lineRunes) - 1, 0)
        IN moved([pushUndoDeleteBlock(joined(e1), entries, FALSE) EXCEPT !.cursorX = 0])
      start(e) == flushed(e, e.cursorY, GetLine(e.buffer, e.cursorY))
  IN start(flushTypingAndBackspaceIfNeeded(e0))

(* ---- clipboard ---- *)

\* cutToClipboard; the clipboard itself belongs to the operating system and
\* setting it is taken to succeed.
cutToClipboard(e0) ==
  LET cut(e, content) ==
        IF content = <<>>
        THEN endUndoGroup(deleteCurrentLine(beginUndoGroup(e)))
        ELSE IF e.selectionActive
             THEN endUndoGroup(deleteSelectedText(beginUndoGroup(e)))
             ELSE e
      flushed(e) == setStatusMessage(cut(e, getSelectedText(e)), "Cut to clipboard")
  IN flushed(flushTypingAndBackspaceIfNeeded(e0))

\* The loop of pasteFromClipboard over the runes of text from position i:
\* an Insert error stops the paste before anything is pushed.
RECURSIVE pasteRunes(_, _, _, _)
pasteRunes(e, text, i, entries) ==
  LET moved(e1, ru) ==
        pasteRunes(e1, text, i + 1,
                   Append(entries,
                          opEntry(e.cursorY, e.cursorX, e1.cursorY, e1.cursorX, ru)))
      inserted(res, ru) ==
        IF res.err
        THEN [setStatusMessage(e, "Paste error") EXCEPT !.quit = TRUE]
        ELSE IF ru = NL
        THEN moved([e EXCEPT !.buffer = res.r,
                             !.cursorY = e.cursorY + 1, !.cursorX = 0], ru)
        ELSE moved([e EXCEPT !.buffer = res.r, !.cursorX = e.cursorX + 1], ru)
  IN IF i >= Len(text)
     THEN setStatusMessage(pushUndoInsertBlock(e, entries), "Pasted from clipboard")
     ELSE inserted(Insert(e.buffer, e.cursorY, e.cursorX, At(text, i)), At(text, i))

\* pasteFromClipboard with the clipboard holding text (already normalised
\* to '\n' line ends).
pasteFromClipboard(e, text) ==
  IF text = <<>> THEN setStatusMessage(e, "Clipboard is empty")
  ELSE endUndoGroup(
         pasteRunes(beginUndoGroup(flushTypingAndBackspaceIfNeeded(e)), text, 0, <<>>))

\* insertString: the runes of text inserted at the cursor, Insert errors
\* discarded, recorded as one insert action; inside an open group it joins
\* that group, outside it opens and closes one of its own.
RECURSIVE insertRunes(_, _, _, _)
insertRunes(e, text, i, entries) ==
  LET moved(e1, ru) ==
        insertRunes(e1, text, i + 1,
                    Append(entries,
                           opEntry(e.cursorY, e.cursorX, e1.cursorY, e1.cursorX, ru)))
      inserted(e1, ru) ==
        IF ru = NL
        THEN moved([e1 EXCEPT !.cursorY = e.cursorY + 1, !.cursorX = 0], ru)
        ELSE moved([e1 EXCEPT !.cursorX = e.cursorX + 1], ru)
  IN IF i >= Len(text)
     THEN pushUndoInsertBlock(e, entries)
     ELSE inserted(bufInsert(e, e.cursorY, e.cursorX, At(text, i)), At(text, i))

insertString(e, text) ==
  IF Len(text) = 0 THEN e
  ELSE IF ~e.undoGrouping
  THEN endUndoGroup(insertRunes(beginUndoGroup(e), text, 0, <<>>))
  ELSE insertRunes(e, text, 0, <<>>)

\* unicode.ToUpper / unicode.ToLower on the runes of the model: "a" and "A"
\* are the two cases of one letter, every other rune has no case.
ToUpper(ru) == IF ru = "a" THEN "A" ELSE ru

ToLower(ru) == IF ru = "A" THEN "a" ELSE ru

\* strings.ToUpper / strings.ToLower
stringsToUpper(word) == [i \in 1..Len(word) |-> ToUpper(word[i])]

stringsToLower(word) == [i \in 1..Len(word) |-> ToLower(word[i])]

isWordChar(ru) == ru \in {"a", "A"}

caseLower == "lower"

caseUpper == "upper"

caseTitle == "title"

caseMixed == "mixed"

detectCase(word) ==
  IF word = <<>> THEN caseLower
  ELSE IF word = stringsToLower(word) THEN caseLower
  ELSE IF word = stringsToUpper(word) THEN caseUpper
  ELSE IF /\ word[1] # ToLower(word[1]) /\ Len(word) > 1
          /\ Tail(word) = stringsToLower(Tail(word))
  THEN caseTitle
  ELSE caseMixed

toTitleCase(word) ==
  IF word = <<>> THEN <<>>
  ELSE <<ToUpper(word[1])>> \o stringsToLower(Tail(word))

\* toggleCaseAtCursor: the word under (or just before) the cursor is deleted
\* as a selection and its next casing inserted, both inside one undo group.
toggleCaseAtCursor(e) ==
  LET RECURSIVE wordStart(_, _), wordEnd(_, _)
      wordStart(runes, start) ==
        IF start > 0 /\ isWordChar(At(runes, start - 1))
        THEN wordStart(runes, start - 1) ELSE start
      wordEnd(runes, end) ==
        IF end < Len(runes) /\ isWordChar(At(runes, end))
        THEN wordEnd(runes, end + 1) ELSE end
      nextWord(word, currentCase) ==
        IF currentCase = caseLower THEN toTitleCase(word)
        ELSE IF currentCase = caseTitle THEN stringsToUpper(word)
        ELSE stringsToLower(word)
      restored(e1, newLineLen) ==
        endUndoGroup([e1 EXCEPT !.selectionActive = FALSE,
                                !.cursorX = IF e.cursorX > newLineLen
                                            THEN newLineLen ELSE e.cursorX])
      replaced(e1) == restored(e1, lineLenOf(e1, e1.cursorY))
      toggled(start, end, word) ==
        IF word = <<>> THEN e
        ELSE replaced(
               insertString(
                 deleteSelectedText(
                   [beginUndoGroup(e) EXCEPT !.selectionActive = TRUE,
                                             !.selectionAnchorY = e.cursorY,
                                             !.selectionAnchorX = start,
                                             !.cursorX = end]),
                 nextWord(word, detectCase(word))))
      bounded(runes, start, end) == toggled(start, end, Slice(runes, start, end))
      around(runes, idx) == bounded(runes, wordStart(runes, idx), wordEnd(runes, idx))
      at(runes, idx) ==
        IF isWordChar(At(runes, idx)) \/ (idx > 0 /\ isWordChar(At(runes, idx - 1)))
        THEN around(runes, IF isWordChar(At(runes, idx)) THEN idx ELSE idx - 1)
        ELSE e
      onLine(runes) ==
        IF Len(runes) = 0 THEN e
        ELSE at(runes, IF e.cursorX >= Len(runes) THEN Len(runes) - 1 ELSE e.cursorX)
  IN onLine(GetLine(e.buffer, e.cursorY))

selectAll(e) ==
  LET lastLine == LineCount(e.buffer) - 1
  IN [setStatusMessage(e, "Selected all text")
        EXCEPT !.selectionActive = TRUE,
               !.selectionAnchorX = 0, !.selectionAnchorY = 0,
               !.cursorY = lastLine, !.cursorX = lineLenOf(e, lastLine)]

(* ---- cursor movement ---- *)

moveCursor(e0, dx, dy, isSelecting) ==
  LET clampY(y, lc) == IF y < 0 THEN (IF 0 >= lc THEN max(lc - 1, 0) ELSE 0)
                       ELSE IF y >= lc THEN max(lc - 1, 0) ELSE y
      move(e, lc) ==
        IF dy # 0
        THEN clampCursorX([e EXCEPT !.cursorY = clampY(e.cursorY + dy, lc)])
        ELSE IF dx = -1 /\ e.cursorX = 0 /\ e.cursorY > 0
        THEN [e EXCEPT !.cursorY = e.cursorY - 1,
                       !.cursorX = lineLenOf(e, e.cursorY - 1)]
        ELSE LET currentLineLen == IF e.cursorY < lc THEN lineLenOf(e, e.cursorY) ELSE 0
             IN IF dx = 1 /\ e.cursorX = currentLineLen /\ e.cursorY < lc - 1
                THEN [e EXCEPT !.cursorY = e.cursorY + 1, !.cursorX = 0]
                ELSE clampCursorX([e EXCEPT !.cursorX = IF e.cursorX + dx < 0 THEN 0
                                                        ELSE e.cursorX + dx])
      selecting(e) == move(e, LineCount(e.buffer))
  IN selecting(IF ~isSelecting THEN [e0 EXCEPT !.selectionActive = FALSE]
               ELSE IF ~e0.selectionActive
                    THEN [e0 EXCEPT !.selectionActive = TRUE,
                                    !.selectionAnchorX = e0.cursorX,
                                    !.selectionAnchorY = e0.cursorY]
                    ELSE e0)


(* ---- keys ---- *)

TAB == "\t"

CtrlA == "^A"

CtrlU == "^U"

CtrlY == "^Y"

CtrlC == "^C"

CtrlX == "^X"

CtrlV == "^V"

CtrlK == "^K"

CtrlL == "^L"

CtrlO == "^O"

Enter == "\r"

Backspace == "^?"

\* Editor.getMultiCursorRange with extraCursorHeight = 0.
getMultiCursorRange(e) ==
  IF extraCursorHeight = 0 THEN [startLine |-> e.cursorY, endLine |-> e.cursorY]
  ELSE IF extraCursorHeight > 0
       THEN [startLine |-> e.cursorY, endLine |-> e.cursorY + extraCursorHeight]
       ELSE [startLine |-> e.cursorY + extraCursorHeight, endLine |-> e.cursorY]

\* handleDeleteKey; elapsed is now.Sub(e.lastDeleteTime) in ms.
handleDeleteKey(e0, elapsed) ==
  LET remove(e1, lineRunes, lineLen) ==
        IF e1.cursorY = LineCount(e1.buffer) - 1 /\ e1.cursorX = lineLen
        THEN e1
        ELSE IF e1.cursorX = lineLen
        THEN [bufDelete([e1 EXCEPT !.deleteEntries =
                           Append(@, opEntry(e1.cursorY, e1.cursorX, 0, 0, NL))],
                        e1.cursorY + 1, 0)
                EXCEPT !.lastDeleteTimeSet = TRUE]
        ELSE IF e1.cursorX < 0 \/ e1.cursorX >= lineLen
        THEN [e1 EXCEPT !.panicked = TRUE]       \* lineRunes[e.cursorX] out of range
        ELSE [bufDelete([e1 EXCEPT !.deleteEntries =
                           Append(@, opEntry(e1.cursorY, e1.cursorX, 0, 0,
                                             At(lineRunes, e1.cursorX)))],
                        e1.cursorY, e1.cursorX + 1)
                EXCEPT !.lastDeleteTimeSet = TRUE]
      grouped(e1) ==
        remove(e1, GetLine(e1.buffer, e1.cursorY), Len(GetLine(e1.buffer, e1.cursorY)))
      flushed(e) ==
        IF e.selectionActive
        THEN endUndoGroup(deleteSelectedText(beginUndoGroup(e)))
        ELSE grouped(IF ~e.deleteActive \/ elapsed > deleteThreshold
                     THEN [flushDeleteGroup(e) EXCEPT !.deleteActive = TRUE,
                                                      !.deleteEntries = <<>>]
                     ELSE e)
  IN flushed(flushEditGroups(e0))

\* The leading spaces and tabs of a line.
RECURSIVE indentOf(_)
indentOf(line) ==
  IF line # <<>> /\ Head(line) \in {" ", TAB}
  THEN <<Head(line)>> \o indentOf(Tail(line))
  ELSE <<>>

\* The insertion loop of the Enter case over textToInsert from position i:
\* an Insert error returns before anything is pushed.
RECURSIVE enterRunes(_, _, _, _)
enterRunes(e, text, i, entries) ==
  LET moved(e1, char) ==
        enterRunes(e1, text, i + 1,
                   Append(entries,
                          opEntry(e.cursorY, e.cursorX, e1.cursorY, e1.cursorX, char)))
      inserted(res, char) ==
        IF res.err THEN setStatusMessage(e, "Insert error")
        ELSE IF char = NL
        THEN moved([e EXCEPT !.buffer = res.r,
                             !.cursorY = e.cursorY + 1, !.cursorX = 0], char)
        ELSE moved([e EXCEPT !.buffer = res.r, !.cursorX = e.cursorX + 1], char)
  IN IF i >= Len(text) THEN pushUndoInsertBlock(e, entries)
     ELSE inserted(Insert(e.buffer, e.cursorY, e.cursorX, At(text, i)), At(text, i))

\* handleKey, case '\r'.
keyEnter(e0) ==
  LET flushed(e) ==
        enterRunes(e, <<NL>> \o indentOf(GetLine(e.buffer, e.cursorY)), 0, <<>>)
  IN flushed(flushTypingGroup(flushDeleteGroup(flushBackspaceGroup(e0))))

\* handleKey, case '\x7f'.
keyBackspace(e0) ==
  LET after(body) ==
        endUndoGroup(IF body.cursorX > 0 THEN [body EXCEPT !.cursorX = @ - 1] ELSE body)
      merged(e2, i) ==
        IF i = e2.cursorY
        THEN [e2 EXCEPT !.cursorX = lineLenOf(e2, e2.cursorY)]
        ELSE e2
      line(e, i, targetX) ==
        IF i >= LineCount(e.buffer) THEN e
        ELSE IF targetX = 0 /\ i = 0 THEN e
        ELSE IF targetX > 0
        THEN bufDelete(
               pushUndoDeleteIfExternalGrouping(e, i, targetX - 1,
                                                getRuneAt(e, i, targetX - 1)),
               i, targetX)
        ELSE IF extraCursorHeight = 0
        THEN LET prevLineIdx == i - 1
                 expectedCursorX == lineLenOf(e, prevLineIdx)
                 e1 == pushUndoDeleteIfExternalGrouping(e, prevLineIdx, expectedCursorX, NL)
             IN merged(bufDelete([e1 EXCEPT !.cursorY = prevLineIdx], i, 0), i)
        ELSE e
      grouped(e, i) ==
        after(line(e, i, IF e.cursorX > lineLenOf(e, i) THEN lineLenOf(e, i)
                         ELSE e.cursorX))
      start(e) == grouped(e, getMultiCursorRange(e).endLine)
  IN IF e0.selectionActive
     THEN endUndoGroup(deleteSelectedText(beginUndoGroup(e0)))
     ELSE start(beginUndoGroup(flushDeleteGroup(flushTypingGroup(e0))))

\* handleKey, default case: the rune r is typed.
keyTyping(e0, r) ==
  LET inserted(e, i, targetX, res) ==
        IF res.err THEN e
        ELSE pushUndoInsertBlock([e EXCEPT !.buffer = res.r],
                                 <<opEntry(i, targetX, i, targetX, r)>>)
      at(e, i, targetX) ==
        IF i >= LineCount(e.buffer) THEN e
        ELSE inserted(e, i, targetX, Insert(e.buffer, i, targetX, r))
      line(e, i) ==
        at(e, i, IF e.cursorX > lineLenOf(e, i) THEN lineLenOf(e, i) ELSE e.cursorX)
      grouped(e) ==
        endUndoGroup([line(e, getMultiCursorRange(e).startLine) EXCEPT !.cursorX = @ + 1])
  IN grouped(beginUndoGroup(flushTypingGroup(flushDeleteGroup(flushBackspaceGroup(e0)))))

\* handleKey up to its switch on the key r: the selection is dropped and the
\* redo stack cleared, except for the keys the two guards list.
handleKeyPrelude(e0, r) ==
  LET redoCleared(e1) ==
        IF r \in {CtrlU, CtrlY, CtrlC, CtrlX, CtrlA} THEN e1
        ELSE [e1 EXCEPT !.redoStack = <<>>]
  IN redoCleared(IF r \in {CtrlC, CtrlX, CtrlA, Backspace} THEN e0
                 ELSE [e0 EXCEPT !.selectionActive = FALSE])

\* processInput on one key, then handleKey's case for it; clip is what the
\* clipboard holds.
handleKeyCtrlA(e0) == selectAll(flushEditGroups(handleKeyPrelude(e0, CtrlA)))

handleKeyCtrlU(e0) == undo(flushEditGroups(handleKeyPrelude(e0, CtrlU)))

handleKeyCtrlY(e0) == redo(flushEditGroups(handleKeyPrelude(e0, CtrlY)))

handleKeyCtrlX(e0) == cutToClipboard(flushEditGroups(handleKeyPrelude(e0, CtrlX)))

handleKeyCtrlV(e0, clip) ==
  pasteFromClipboard(flushEditGroups(handleKeyPrelude(e0, CtrlV)), clip)

\* Editor.toggleLineNumbers
toggleLineNumbers(e) ==
  setStatusMessage([e EXCEPT !.showLineNumbers = ~@],
                   IF ~e.showLineNumbers THEN "Line numbers ON" ELSE "Line numbers OFF")

\* handleKey, case Ctrl+L
handleKeyCtrlL(e0) == toggleLineNumbers(flushEditGroups(handleKeyPrelude(e0, CtrlL)))

\* handleKey, case Ctrl+O: the display of non-printable runes is toggled.
handleKeyCtrlO(e0) ==
  LET toggled(e) ==
        setStatusMessage([e EXCEPT !.showNonPrintable = ~@],
                         IF ~e.showNonPrintable THEN "Show non-printable: ON"
                         ELSE "Show non-printable: OFF")
  IN toggled(flushEditGroups(handleKeyPrelude(e0, CtrlO)))

handleKeyCtrlK(e0) == toggleCaseAtCursor(flushEditGroups(handleKeyPrelude(e0, CtrlK)))

handleKeyEnter(e0) == keyEnter(handleKeyPrelude(e0, Enter))

handleKeyBackspace(e0) == keyBackspace(handleKeyPrelude(e0, Backspace))

handleKeyDefault(e0, r) == keyTyping(handleKeyPrelude(e0, r), r)

handleArrowKey(e, direction, modified) ==
  moveCursor(e,
             CASE direction = "C" -> 1 [] direction = "D" -> -1 [] OTHER -> 0,
             CASE direction = "A" -> -1 [] direction = "B" -> 1 [] OTHER -> 0,
             modified)

\* processInput on an escape sequence ESC [ params cmd, then handleEscape
\* outside any prompt: a plain or Shift arrow (cmd A, B, C or D).
handleEscapeArrow(e0, cmd, params) ==
  handleArrowKey(flushEditGroups(e0), cmd, params = "1;2")

\* The same for the Delete key (ESC [ 3 ~), read when the clock is elapsed ms
\* past e.lastDeleteTime.
handleEscapeDelete(e0, elapsed) == handleDeleteKey(flushEditGroups(e0), elapsed)

(* --------------------------- editor state ----------------------------- *)

VARIABLES
  editor,      \* the Editor
  obs          \* what the last input event was and what it started from

vars == <<buffer, call, before, ref, editor, obs>>

\* Longest document the editor is driven to.
EdMaxLen == 3

\* Most actions the undo stack is driven to hold.
MaxStack == 3

\* Largest value lastGroupID is driven to.
MaxGroupID == 4

\* Most input events of one session.
MaxEvents == 4

\* Documents the editor is opened on.
EditorTexts == SeqsUpTo({"a", NL}, 2) \cup {<<" ">>}

\* Runes typed at the keyboard.
TypedRunes == {"a"}

\* What the operating system's clipboard may hold when Ctrl+V is pressed.
ClipTexts == {<<"a">>, <<"a", NL>>}

\* Times in ms between one input and an earlier one: inside and outside the
\* grouping window.
Quick == typeGroupThreshold - 1

Pause == typeGroupThreshold + 1

Gaps == {Quick, Pause}

\* now.Sub(e.lastDeleteTime): the zero time.Time is further back than any
\* threshold.
Elapsed(e) == IF e.lastDeleteTimeSet THEN Gaps ELSE {Pause}

NoObs ==
  [n |-> 0, key |-> "", undoOf |-> "", base |-> <<>>, fresh |-> FALSE,
   recorded |-> FALSE, acted |-> FALSE,
   runLen |-> 0, runBase |-> <<>>, runSplit |-> FALSE]

pending(e) ==
  \/ e.typingActive /\ e.typingEntries # <<>>
  \/ e.backspaceActive /\ e.backspaceEntries # <<>>
  \/ e.deleteActive /\ e.deleteEntries # <<>>

\* The observation of an event of this kind, handled from editor state e0
\* and leaving e1; gap is the time in ms since the previous event, noted for
\* typed keys.
\*   base      the content before the event
\*   fresh     before it the undo stack was empty and no group was pending
\*   recorded  the handler pushed at least one action of its own
\*   acted     an undo or redo that found an action to replay
\*   undoOf    for an undo, the kind of the event before it if that event
\*             recorded an action (the one this undo reverts)
\*   runLen    typed keys in the current run of typing, each inside the
\*             window after the one before (counted up to 2)
\*   runBase   the content before the first key of the run
\*   runSplit  the run began more than the window after another typed key
Observe(kind, gap, e0, e1) ==
  LET content == WriteTo(e0.buffer)
      continues == kind = "type" /\ obs.key = "type" /\ gap < typeGroupThreshold
  IN [n      |-> obs.n + 1,
      key    |-> kind,
      undoOf |-> IF kind = "undo" /\ obs.recorded THEN obs.key ELSE "",
      base   |-> content,
      fresh  |-> e0.undoStack = <<>> /\ ~pending(e0),
      recorded |-> /\ kind \notin {"undo", "redo"}
                   /\ Len(e1.undoStack) > Len(flushEditGroups(e0).undoStack),
      acted  |-> \/ kind = "undo" /\ flushEditGroups(e0).undoStack # <<>>
                 \/ kind = "redo" /\ flushEditGroups(e0).redoStack # <<>>,
      runLen |-> IF kind # "type" THEN 0
                 ELSE IF continues THEN min(obs.runLen + 1, 2) ELSE 1,
      runBase |-> IF kind # "type" THEN <<>>
                  ELSE IF continues THEN obs.runBase ELSE content,
      runSplit |-> IF kind # "type" THEN FALSE
                   ELSE IF continues THEN obs.runSplit
                   ELSE obs.key = "type" /\ gap > typeGroupThreshold]

\* The editor as it starts to handle an input.
Reading == [editor EXCEPT !.replayFailed = FALSE, !.replayContinued = FALSE]

\* One input event: the editor, which has neither quit nor died, reads an
\* input in state e0 and its handler leaves state e1.
Event(kind, gap, e0, e1) ==
  /\ ~editor.quit /\ ~editor.panicked
  /\ obs.n < MaxEvents
  /\ length(e1.buffer.root) <= EdMaxLen
  /\ e1.cursorX <= EdMaxLen + 1
  /\ Len(e1.undoStack) <= MaxStack
  /\ e1.lastGroupID <= MaxGroupID
  /\ editor' = e1
  /\ obs' = Observe(kind, gap, e0, e1)
  /\ UNCHANGED ropeVars

KeyTyping ==
  \E gap \in Gaps, r \in TypedRunes :
    Event("type", gap, Reading, handleKeyDefault(Reading, r))

KeyEnter == Event("enter", Quick, Reading, handleKeyEnter(Reading))

KeyBackspace == Event("backspace", Quick, Reading, handleKeyBackspace(Reading))

KeyDelete ==
  \E elapsed \in Elapsed(editor) :
    Event("delete", Quick, Reading, handleEscapeDelete(Reading, elapsed))

KeyArrow ==
  \E cmd \in {"A", "B", "C", "D"}, params \in {"", "1;2"} :
    Event("arrow", Quick, Reading, handleEscapeArrow(Reading, cmd, params))

KeySelectAll == Event("selectAll", Quick, Reading, handleKeyCtrlA(Reading))

KeyCut == Event("cut", Quick, Reading, handleKeyCtrlX(Reading))

KeyPaste ==
  \E clip \in ClipTexts : Event("paste", Quick, Reading, handleKeyCtrlV(Reading, clip))

KeyToggleCase == Event("toggleCase", Quick, Reading, handleKeyCtrlK(Reading))

KeyToggleLineNumbers ==
  Event("toggleLineNumbers", Quick, Reading, handleKeyCtrlL(Reading))

KeyToggleNonPrintable ==
  Event("toggleNonPrintable", Quick, Reading, handleKeyCtrlO(Reading))

KeyUndo == Event("undo", Quick, Reading, handleKeyCtrlU(Reading))

KeyRedo == Event("redo", Quick, Reading, handleKeyCtrlY(Reading))

(* ---------------------------- rope actions ---------------------------- *)

\* r.Insert(line, col, ru) for some arguments, the rune drawn from RS.
InsertCall(RS) ==
  \E line \in LineArgs : \E col \in ColArgs(line), ru \in RS :
    LET res == Insert(R, line, col, ru)
    IN /\ length(buffer.root) < MaxLen
       /\ buffer' = res.r
       /\ call' = [op |-> "Insert", line |-> line, col |-> col, ru |-> ru, err |-> res.err]
       /\ before' = [text |-> WriteTo(R), lineStarts |-> buffer.lineStarts]
       /\ ref' = IF res.err THEN ref ELSE InsertAt(ref, RefIndex(ref, line, col), ru)
       /\ UNCHANGED <<editor, obs>>

RopeInsert == InsertCall(Runes)

RopeInsertMore == InsertCall(MoreRunes)

\* r.Delete(line, col) for some arguments.
RopeDelete ==
  \E line \in LineArgs : \E col \in ColArgs(line) :
    LET res == Delete(R, line, col)
    IN /\ buffer' = res.r
       /\ call' = [op |-> "Delete", line |-> line, col |-> col, ru |-> "", err |-> res.err]
       /\ before' = [text |-> WriteTo(R), lineStarts |-> buffer.lineStarts]
       /\ ref' = IF res.err THEN ref ELSE RemoveAt(ref, RefIndex(ref, line, col) - 1)
       /\ UNCHANGED <<editor, obs>>

(* ----------------------- WriteTo into an io.Writer -------------------- *)
\* The rune U+00E9, which UTF-8 encodes in two bytes; the other runes of the
\* model are ASCII and take one byte.
EAcute == "U+00E9"

\* []byte(string(data)): the UTF-8 encoding of a leaf's runes.
utf8(data) ==
  LET F[i \in 0..Len(data)] ==
        IF i = 0 THEN <<>>
        ELSE F[i - 1] \o (IF data[i] = EAcute THEN <<"C3", "A9">> ELSE <<data[i]>>)
  IN F[Len(data)]

\* An io.Writer that accepts `limit` bytes in all and then fails:
\*   data    the bytes accepted so far
\*   okN     how many of them were accepted by Write calls that returned nil
\*   failed  a Write call has returned an error
\*   late    Write calls made after one had returned an error
LimitedWriter(limit) ==
  [limit |-> limit, data |-> <<>>, okN |-> 0, failed |-> FALSE, late |-> 0]

\* w.Write(p): the writer afterwards, the byte count and the error returned.
Write(w, p) ==
  LET room == w.limit - Len(w.data)
  IN IF Len(p) <= room
     THEN [w |-> [w EXCEPT !.data = @ \o p, !.okN = @ + Len(p),
                           !.late = IF w.failed THEN @ + 1 ELSE @],
           n |-> Len(p), err |-> FALSE]
     ELSE [w |-> [w EXCEPT !.data = @ \o Slice(p, 0, room), !.failed = TRUE,
                           !.late = IF w.failed THEN @ + 1 ELSE @],
           n |-> room, err |-> TRUE]

\* node.writeTo(w): the count and error it returns, and the writer afterwards.
RECURSIVE writeToWriter(_, _)
writeToWriter(n, w) ==
  LET rightDone(total, res) ==
        IF res.err THEN [w |-> res.w, n |-> total, err |-> TRUE]
        ELSE [w |-> res.w, n |-> total + res.n, err |-> FALSE]
      leftDone(res) ==
        IF res.err THEN [w |-> res.w, n |-> 0, err |-> TRUE]
        ELSE rightDone(res.n, writeToWriter(n.right, res.w))
  IN IF isLeaf(n) THEN Write(w, utf8(n.data))
     ELSE leftDone(writeToWriter(n.left, w))

\* Rope.WriteTo(w)
WriteToWriter(r, w) == writeToWriter(r.root, w)

(* --------------------------- query actions ---------------------------- *)

\* Runes of the documents the queries are made on.
TextRunes == {EAcute, CR, NL}

\* Between queries the buffer is edited by Insert and Delete calls that
\* succeed; which call it was is not recorded.  A query leaves the buffer as
\* it found it, so the edits that can follow a query are those that can
\* follow the state it was made in, and they are taken from there.
Unrecorded == [op |-> "Edit", line |-> 0, col |-> 0, ru |-> "", err |-> FALSE]

Edited(res, text) ==
  /\ call.op \in {"NewRope", "Edit"}
  /\ ~res.err
  /\ buffer' = res.r
  /\ call' = Unrecorded
  /\ before' = [text |-> <<>>, lineStarts |-> <<0>>]
  /\ ref' = text
  /\ UNCHANGED <<editor, obs>>

TextInsert ==
  \E line \in LineArgs : \E col \in ColArgs(line), ru \in TextRunes :
    /\ length(buffer.root) < MaxLen
    /\ Edited(Insert(R, line, col, ru),
              IF line \in 0..(Len(buffer.lineStarts) - 1)
              THEN InsertAt(ref, RefIndex(ref, line, col), ru) ELSE ref)

TextDelete ==
  \E line \in LineArgs : \E col \in ColArgs(line) :
    Edited(Delete(R, line, col),
           IF line \in 0..(Len(buffer.lineStarts) - 1)
           THEN RemoveAt(ref, RefIndex(ref, line, col) - 1) ELSE ref)

\* The rope state a query leaves: the buffer as it was, the call recorded.
Queried(c) ==
  /\ call.op \in {"NewRope", "Edit"}
  /\ call' = c
  /\ before' = [text |-> WriteTo(R), lineStarts |-> buffer.lineStarts]
  /\ UNCHANGED <<buffer, ref, editor, obs>>

\* r.GetLine(line) for a line of the document or one of the two on each side.
RopeGetLine ==
  \E line \in -2..(LineCount(R) + 1) :
    Queried([op |-> "GetLine", line |-> line, out |-> GetLine(R, line)])

\* r.RuneAt(index) for an offset of the document or one just outside.
RopeRuneAt ==
  \E index \in -1..(length(buffer.root) + 1) :
    LET res == RuneAt(R, index)
    IN Queried([op |-> "RuneAt", index |-> index, ru |-> res.ru, err |-> res.err])

\* r.WriteTo(w) for a writer that fails after some number of bytes of the
\* document, or takes them all.
RopeWriteTo ==
  \E limit \in 0..Len(utf8(WriteTo(R))) :
    LET res == WriteToWriter(R, LimitedWriter(limit))
    IN Queried([op |-> "WriteTo", n |-> res.n, err |-> res.err, w |-> res.w])

(* --------------------------- specifications --------------------------- *)

\* A rope constructed from any text of InitTexts, then Insert and Delete calls.
InitRope ==
  /\ \E text \in InitTexts : RopeIs(text)
  /\ editor = NewEditor(<<>>)
  /\ obs = NoObs

NextRope == RopeInsert \/ RopeDelete

SpecRope == InitRope /\ [][NextRope]_vars

\* A rope constructed empty, then Insert calls only.
InitEmpty ==
  /\ RopeIs(<<>>)
  /\ editor = NewEditor(<<>>)
  /\ obs = NoObs

NextInserts == RopeInsertMore

SpecInserts == InitEmpty /\ [][NextInserts]_vars

\* A rope constructed empty, then Insert and Delete calls.
SpecFromEmpty == InitEmpty /\ [][NextRope]_vars

\* A rope constructed from any text of TextRunes, edited by Insert and
\* Delete calls, and queried by the read-only calls GetLine, RuneAt and
\* WriteTo.
InitQueries ==
  /\ \E text \in SeqsUpTo(TextRunes, MaxInitLen) : RopeIs(text)
  /\ editor = NewEditor(<<>>)
  /\ obs = NoObs

NextQueries ==
  \/ TextInsert \/ TextDelete
  \/ RopeGetLine \/ RopeRuneAt \/ RopeWriteTo

SpecQueries == InitQueries /\ [][NextQueries]_vars

\* An editor opened on any document of EditorTexts, then input events.
InitEditor ==
  /\ RopeIs(<<>>)
  /\ \E text \in EditorTexts : editor = NewEditor(text)
  /\ obs = NoObs

NextEditor ==
  \/ KeyTyping \/ KeyEnter \/ KeyBackspace \/ KeyDelete
  \/ KeyArrow \/ KeySelectAll \/ KeyCut \/ KeyPaste
  \/ KeyUndo \/ KeyRedo

SpecEditor == InitEditor /\ [][NextEditor]_vars

\* The editor with Ctrl+K among its keys: toggling the case of a word records
\* two actions, a deletion and an insertion, in one undo group.  Ctrl+X, whose
\* one-action group is recorded as a paste's is, is not among them.
NextGroups ==
  \/ KeyTyping \/ KeyEnter \/ KeyBackspace \/ KeyDelete
  \/ KeyArrow \/ KeySelectAll \/ KeyPaste
  \/ KeyToggleCase \/ KeyUndo \/ KeyRedo

SpecGroups == InitEditor /\ [][NextGroups]_vars


(* ------------------------------ claims -------------------------------- *)

\* C1: from an empty document, after any sequence of successful Inserts the
\* text WriteTo emits is the reference text (each rune inserted at
\* lineStart(line) + clamped col of a plain sequence): nothing lost,
\* duplicated or reordered, across leaf splits and rebalances.
C1_RoundTrip == WriteTo(R) = ref

\* A full-length document built by Inserts alone whose last Insert made the
\* root ratio exceed the threshold, so the tree was split and then rebuilt.
C1_Witness ==
  /\ call.op = "Insert" /\ ~call.err
  /\ Len(ref) = MaxLen /\ isLeaf(buffer.root)
  /\ \E i \in 1..Len(ref) : ref[i] = "a"
  /\ \E i \in 1..Len(ref) : ref[i] = "b"
  /\ \E i \in 1..Len(ref) : ref[i] = NL

\* C2: LineCount() is 1 + the number of newlines in the document, in every
\* state reachable from NewRope(text) by Insert and Delete calls.
C2_LineCount == LineCount(R) = 1 + NewlineCount(WriteTo(R))

\* A successful Delete that removed a newline and left other newlines.
C2_Witness ==
  /\ call.op = "Delete" /\ ~call.err
  /\ NewlineCount(before.text) = NewlineCount(WriteTo(R)) + 1
  /\ NewlineCount(WriteTo(R)) >= 1

\* The document content of the editor.
Content(e) == WriteTo(e.buffer)

\* C3: for every action or group on top of the undo stack, undo()
\* immediately followed by redo() leaves the document content identical to
\* the content immediately before the undo().
C3_UndoRedoInverse ==
  [][(obs.key = "undo" /\ obs.acted /\ obs'.key = "redo")
       => Content(editor') = obs.base]_vars

\* Kinds of event that are one edit of the document.
SingleEdits == {"type", "enter", "backspace", "delete", "paste", "cut"}

\* C4: a single edit made when the undo stack is empty and no group is
\* pending, followed by one undo(), leaves the document content exactly as
\* it was before the edit.
C4_SingleEditUndo ==
  [][(obs.key \in SingleEdits /\ obs.fresh /\ obs'.key = "undo")
       => Content(editor') = obs.base]_vars

\* C5: after n >= 2 characters typed consecutively, each less than 900 ms
\* after the previous one, one undo restores the content from before the
\* first of them.
C5_TypingRunUndo ==
  [][(obs.runLen >= 2 /\ obs'.key = "undo") => Content(editor') = obs.runBase]_vars

\* C6: characters typed, a pause of more than 900 ms, further characters
\* typed within the window: one undo removes exactly the characters typed
\* after the pause, leaving the content as it was at the pause.
C6_PauseSplitsUndo ==
  [][(obs.runLen >= 1 /\ obs.runSplit /\ obs'.key = "undo")
       => Content(editor') = obs.runBase]_vars

\* Kinds of event whose handler wraps its edit in beginUndoGroup and
\* endUndoGroup as one structural edit.
Structural == {"paste", "cut"}

\* The actions a handler pushed in this step: those of undoStack' above the
\* stack as it was once the pending groups were flushed.
Pushed ==
  SubSeq(editor'.undoStack, Len(flushEditGroups(editor).undoStack) + 1,
         Len(editor'.undoStack))

\* C7: the actions recorded between beginUndoGroup and the matching
\* endUndoGroup carry one nonzero groupID; one undo() reverts all of them,
\* restoring the content from before the structural edit; one redo() then
\* re-applies all of them.
C7_GroupAtomic ==
  [][/\ obs'.key \in Structural =>
          \A i \in 1..Len(Pushed) :
            Pushed[i].groupID > 0 /\ Pushed[i].groupID = Pushed[1].groupID
     /\ (obs.key \in Structural /\ obs.recorded /\ obs'.key = "undo")
          => Content(editor') = obs.base
     /\ (obs.key = "undo" /\ obs.undoOf \in Structural /\ obs'.key = "redo")
          => Content(editor') = obs.base]_vars

\* Kinds of event that are edits and neither undo nor redo.
MutatingEdits == {"type", "enter", "backspace", "delete", "paste", "cut"}

\* C8: after any edit that changed the document and is not itself an undo
\* or a redo, the redo stack is empty.
C8_EditClearsRedo ==
  [][(obs'.key \in MutatingEdits /\ Content(editor') # Content(editor))
       => editor'.redoStack = <<>>]_vars

\* C9: when a buffer Insert or Delete fails while undo() or redo() replays
\* an action, nothing further of that action or its group is applied, and
\* the failure is reported instead of the usual success message.
C9_ReplayStopsOnError ==
  editor.replayFailed =>
    /\ ~editor.replayContinued
    /\ editor.statusMessage \notin {"Undid last action", "Redid last action"}

\* C10: a successful Delete(line, col) removes exactly the rune at global
\* offset index(line, col) - 1 and leaves all others in their order.
C10_DeleteOne ==
  (call.op = "Delete" /\ ~call.err) =>
    WriteTo(R) = RemoveAt(before.text, RefIndex(before.text, call.line, call.col) - 1)

\* A successful Delete in the middle of a tree with internal nodes.
C10_Witness ==
  /\ call.op = "Delete" /\ ~call.err
  /\ ~isLeaf(buffer.root)
  /\ RefIndex(before.text, call.line, call.col) \in 2..(Len(before.text) - 1)

\* C11: Delete(0, 0), and any Delete whose position resolves to global
\* offset 0, returns an error and leaves the tree and lineStarts (hence the
\* content) exactly as they were.
C11_DeleteAtStart ==
  [][(/\ call'.op = "Delete"
      /\ call'.line = 0
      /\ RefIndex(WriteTo(R), 0, call'.col) = 0)
       => (call'.err /\ buffer' = buffer)]_vars

\* A Delete at a column past the end of an empty first line, which resolves
\* to offset 0, on a document held in a tree with internal nodes.
C11_Witness ==
  /\ call.op = "Delete" /\ call.err
  /\ call.line = 0 /\ call.col > 0
  /\ Len(before.text) >= 3 /\ before.text[1] = NL
  /\ ~isLeaf(buffer.root)

\* C12: when Insert or Delete returns an error, the content, LineCount and
\* lineStarts are exactly as they were before the call.
C12_ErrorLeavesBuffer ==
  (call.op \in {"Insert", "Delete"} /\ call.err) =>
    /\ WriteTo(R) = before.text
    /\ buffer.lineStarts = before.lineStarts
    /\ LineCount(R) = LineCount([root |-> buffer.root, lineStarts |-> before.lineStarts])

\* An Insert refused for a negative line on a document of several lines
\* held in a tree with internal nodes.
C12_Witness ==
  /\ call.op = "Insert" /\ call.err /\ call.line < 0
  /\ LineCount(R) >= 2
  /\ ~isLeaf(buffer.root)

\* C13: Insert succeeds for every line index in 0..LineCount() inclusive and
\* returns a position error only for a line outside that range.
C13_InsertLineRange ==
  call.op = "Insert" =>
    (~call.err <=> call.line \in 0..Len(before.lineStarts))

\* The column of a call clamped to the line it names in text t, a line that
\* exists.
ClampedCol(t, line, col) == max(0, min(col, RefLineLen(t, line)))

\* C14: for an existing line, Insert and Delete with any column act exactly
\* as with the column clamped to [0, length of the line]: the rune goes in, or
\* comes out before, that position of that line; Insert never fails, and
\* Delete fails only when the clamped position is the start of the document.
C14_ColumnClamped ==
  [][(call'.op \in {"Insert", "Delete"}
       /\ call'.line \in 0..(Len(buffer.lineStarts) - 1))
       => LET t == WriteTo(R)
              line == call'.line
              c == ClampedCol(t, line, call'.col)
              at == At(RefLineStarts(t), line) + c
          IN IF call'.op = "Insert"
             THEN /\ ~call'.err
                  /\ buffer' = Insert(R, line, c, call'.ru).r
                  /\ WriteTo(buffer') = InsertAt(t, at, call'.ru)
             ELSE /\ call'.err <=> (line = 0 /\ c = 0)
                  /\ buffer' = Delete(R, line, c).r
                  /\ ~call'.err => WriteTo(buffer') = RemoveAt(t, at - 1)]_vars

\* An Insert at a column past the end of a non-empty line that is not the
\* last one: the position after the clamp is just before its newline.
C14_Witness ==
  /\ call.op = "Insert" /\ ~call.err
  /\ call.line + 1 < Len(before.lineStarts)
  /\ call.col > RefLineLen(before.text, call.line)
  /\ RefLineLen(before.text, call.line) >= 1

(* ------------------------------- C15 ---------------------------------- *)
\* C15: GetLine(n) with n < 0 or n >= LineCount() returns the empty string
\* and leaves the buffer (tree and line index) as it was.
C15_GetLineOutOfRange ==
  [][(/\ call'.op = "GetLine"
      /\ (call'.line < 0 \/ call'.line >= LineCount(R)))
       => (call'.out = <<>> /\ buffer' = buffer)]_vars

\* GetLine was asked for the line just past the last one of a document of
\* several non-empty lines held in several leaves.
C15_Witness ==
  /\ call.op = "GetLine"
  /\ call.line = LineCount(R)
  /\ LineCount(R) >= 2
  /\ ~isLeaf(buffer.root)
  /\ GetLine(R, call.line - 1) # <<>>
  /\ call.out = <<>>

(* ------------------------------- C16 ---------------------------------- *)
\* The content of line n of text t whose lines start at the offsets ls:
\* from ls[n] to the next line start (the end of t for the last line),
\* without the '\n' at its end and without one '\r' just before that '\n'.
RefLine(t, ls, n) ==
  LET raw == Slice(t, At(ls, n), IF n + 1 < Len(ls) THEN At(ls, n + 1) ELSE Len(t))
      chop(x) == Slice(x, 0, Len(x) - 1)
      noCR(x) == IF Len(x) > 0 /\ x[Len(x)] = CR THEN chop(x) ELSE x
  IN IF Len(raw) > 0 /\ raw[Len(raw)] = NL THEN noCR(chop(raw)) ELSE raw

\* C16: for 0 <= n < LineCount(), GetLine(n) is the document content from
\* lineStarts[n] to the next line start, with the trailing '\n' and one
\* '\r' before it removed, also when the range lies in several leaves.
C16_GetLineContent ==
  (call.op = "GetLine" /\ call.line \in 0..(LineCount(R) - 1))
    => call.out = RefLine(ref, buffer.lineStarts, call.line)

\* GetLine returned a non-empty line that ends in "\r\n" in the document and
\* whose range starts in the left subtree of the root and ends in the right.
C16_Witness ==
  /\ call.op = "GetLine"
  /\ call.line \in 0..(LineCount(R) - 2)
  /\ ~isLeaf(buffer.root)
  /\ At(buffer.lineStarts, call.line) < buffer.root.weight
  /\ At(buffer.lineStarts, call.line + 1) > buffer.root.weight + 1
  /\ At(ref, At(buffer.lineStarts, call.line + 1) - 2) = CR
  /\ call.out # <<>>
  /\ Len(call.out) = At(buffer.lineStarts, call.line + 1)
                       - At(buffer.lineStarts, call.line) - 2

(* ------------------------------- C17 ---------------------------------- *)
\* C17: RuneAt(i) returns the i-th code point of the document when
\* 0 <= i < length, without error, and an error for every other i.
C17_RuneAt ==
  call.op = "RuneAt" =>
    IF call.index \in 0..(Len(ref) - 1)
    THEN ~call.err /\ call.ru = At(ref, call.index)
    ELSE call.err

\* RuneAt returned a rune found two levels down on the right of the tree,
\* different from the rune at the same index of the left subtree.
C17_Witness ==
  /\ call.op = "RuneAt" /\ ~call.err
  /\ ~isLeaf(buffer.root) /\ ~isLeaf(buffer.root.right)
  /\ call.index >= buffer.root.weight + buffer.root.right.weight
  /\ call.ru # At(ref, call.index - buffer.root.weight)

(* ------------------------------- C18 ---------------------------------- *)
\* C18: when the sink fails on a write, WriteTo makes no further write and
\* returns the error with the number of bytes the sink accepted before the
\* failure (counted with or without the bytes of the failed write itself),
\* wherever the failing leaf is in the tree; when no write fails it returns
\* the number of bytes of all leaves, written in document order.
C18_WriteToCount ==
  call.op = "WriteTo" =>
    /\ call.w.late = 0
    /\ call.err = call.w.failed
    /\ call.err => call.n \in {call.w.okN, Len(call.w.data)}
    /\ ~call.err => (call.n = Len(call.w.data) /\ call.w.data = utf8(ref))

(* ------------------------------- C19 ---------------------------------- *)
\* The actions at the top of a stack that one undo() or redo() moves: the
\* top action and, when its groupID is nonzero, the actions under it for as
\* long as they have the same groupID.
RECURSIVE TopRun(_, _)
TopRun(stack, groupID) ==
  IF stack = <<>> \/ Top(stack).groupID # groupID THEN 0
  ELSE 1 + TopRun(Pop(stack), groupID)

Moved(stack) ==
  IF Top(stack).groupID = 0 THEN 1 ELSE TopRun(stack, Top(stack).groupID)

Reverse(seq) == [i \in 1..Len(seq) |-> seq[Len(seq) + 1 - i]]

\* C19: undo() on a non-empty undo stack (pending groups flushed first, as
\* undo() does) moves the top action to the redo stack and with it every
\* action of the same nonzero groupID under it, in the order they are
\* popped; afterwards no action of that groupID is on the undo stack, and
\* every other action is still there in its original order.
C19_UndoMovesGroup ==
  [][(obs'.key = "undo" /\ obs'.acted)
       => LET S == flushEditGroups(editor).undoStack
              RS == flushEditGroups(editor).redoStack
              g == Top(S).groupID
              k == Moved(S)
          IN /\ editor'.redoStack = RS \o Reverse(SubSeq(S, Len(S) - k + 1, Len(S)))
             /\ editor'.undoStack =
                  IF g = 0 THEN Pop(S)
                  ELSE SelectSeq(S, LAMBDA a : a.groupID # g)
             /\ g # 0 => \A i \in 1..Len(editor'.undoStack) :
                           editor'.undoStack[i].groupID # g]_vars

\* An undo has moved a group of two actions to the redo stack and left on
\* the undo stack an action of another group.
C19_Witness ==
  /\ obs.key = "undo" /\ obs.acted
  /\ Len(editor.redoStack) >= 2
  /\ Top(editor.redoStack).groupID # 0
  /\ Top(Pop(editor.redoStack)).groupID = Top(editor.redoStack).groupID
  /\ editor.undoStack # <<>>
  /\ Top(editor.undoStack).groupID # Top(editor.redoStack).groupID

C27_LineIndexIsScan == buffer.lineStarts = RefLineStarts(ref)

\* A newline was inserted before the start of a later line of a document
\* held in several leaves, so an entry was added and later ones shifted.
C27_Witness ==
  /\ call.op = "Insert" /\ ~call.err /\ call.ru = NL
  /\ ~isLeaf(buffer.root)
  /\ call.line + 2 < Len(buffer.lineStarts)
  /\ At(buffer.lineStarts, call.line + 2) > At(buffer.lineStarts, call.line + 1) + 1

(* ------------------------------- C28 ---------------------------------- *)
\* The number of runes under node n, counted leaf by leaf.
RECURSIVE Size(_)
Size(n) == IF isLeaf(n) THEN Len(n.data) ELSE Size(n.left) + Size(n.right)

RECURSIVE WeightsHold(_)
WeightsHold(n) ==
  \/ isLeaf(n)
  \/ /\ n.weight = Size(n.left)
     /\ length(n) = n.weight + Size(n.right)
     /\ WeightsHold(n.left)
     /\ WeightsHold(n.right)

\* C28: in every internal node the weight is the number of runes of the
\* left subtree, and the node's length is the weight plus the number of
\* runes of the right subtree.
C28_WeightIsLeftLength == WeightsHold(buffer.root)

\* A successful Delete left a tree two levels deep.
C28_Witness ==
  /\ call.op = "Delete" /\ ~call.err
  /\ ~isLeaf(buffer.root)
  /\ (~isLeaf(buffer.root.left) \/ ~isLeaf(buffer.root.right))
  /\ Len(before.text) = MaxLen

(* ------------------------------- C29 ---------------------------------- *)
RECURSIVE LeavesWithin(_, _)
LeavesWithin(n, bound) ==
  IF isLeaf(n) THEN Len(n.data) <= bound
  ELSE LeavesWithin(n.left, bound) /\ LeavesWithin(n.right, bound)

\* C29: starting from an empty document, after every Insert and Delete call
\* every leaf holds at most maxLeafSize runes.
C29_LeafBound == LeavesWithin(buffer.root, maxLeafSize)

Recorded(e) == {e.undoStack[i] : i \in 1..Len(e.undoStack)}
                 \cup {e.redoStack[i] : i \in 1..Len(e.redoStack)}

\* The actions a flush of the pending batches pushes.
FlushedActions(e) ==
  {flushEditGroups(e).undoStack[i] :
     i \in (Len(e.undoStack) + 1)..Len(flushEditGroups(e).undoStack)}

\* C22: the next groupID to mint is at least 1 and greater than every
\* groupID in use, it never decreases, and the groupIDs an input event adds
\* are 0 or were minted during that event, so no group gets the ID of an
\* earlier one; between events no group is open, and a pending batch,
\* recorded outside any group, is pushed with groupID 0.
C22_GroupIDsFresh ==
  [][/\ editor.lastGroupID >= 1
     /\ ~editor.undoGrouping
     /\ \A a \in Recorded(editor) : a.groupID \in 0..(editor.lastGroupID - 1)
     /\ \A a \in FlushedActions(editor) : a.groupID = 0
     /\ editor'.lastGroupID >= editor.lastGroupID
     /\ \A a \in Recorded(editor') \ Recorded(editor) :
          \/ a.groupID = 0
          \/ a.groupID \in editor.lastGroupID..(editor'.lastGroupID - 1)]_vars

\* The editor holds a standalone action and actions of two different
\* groups, and a group was minted after both.
C22_Witness ==
  /\ \E a, b, c \in Recorded(editor) :
       /\ a.groupID = 0
       /\ b.groupID >= 1
       /\ c.groupID > b.groupID
  /\ obs.recorded

(* ------------------------------- C21 ---------------------------------- *)
\* The records of the batch that is pending in e.
PendingEntries(e) ==
  IF e.deleteActive /\ e.deleteEntries # <<>> THEN e.deleteEntries
  ELSE IF e.backspaceActive /\ e.backspaceEntries # <<>> THEN e.backspaceEntries
  ELSE e.typingEntries

\* C21: when Ctrl+U or Ctrl+Y arrives while a batch is pending (the batch
\* was recorded by the event before), the whole batch is pushed as one action
\* on the undo stack before anything else; the undo then moves exactly that
\* action to the redo stack and the content is what it was before the
\* batch's edits; the redo leaves it on the undo stack under whatever it
\* re-applies; in both cases no batch is pending afterwards.
C21_PendingFlushedFirst ==
  [][(obs'.key \in {"undo", "redo"} /\ pending(editor))
       => LET flushed == flushEditGroups(editor).undoStack
          IN /\ Len(flushed) = Len(editor.undoStack) + 1
             /\ SubSeq(flushed, 1, Len(editor.undoStack)) = editor.undoStack
             /\ Top(flushed).ops = PendingEntries(editor)
             /\ ~pending(editor')
             /\ editor'.typingEntries = <<>>
             /\ editor'.backspaceEntries = <<>>
             /\ editor'.deleteEntries = <<>>
             /\ obs'.key = "undo" =>
                  /\ editor'.undoStack = editor.undoStack
                  /\ editor'.redoStack = Append(editor.redoStack, Top(flushed))
                  /\ Content(editor') = obs.base
             /\ obs'.key = "redo" =>
                  /\ Len(editor'.undoStack) >= Len(flushed)
                  /\ SubSeq(editor'.undoStack, 1, Len(flushed)) = flushed]_vars

\* The second event of a session is an undo that found an action although
\* nothing had been pushed before it: the first event, a press of the Delete
\* key, left a batch pending, and the undo put the deleted rune back.
C21_Witness ==
  /\ obs.n = 2
  /\ obs.key = "undo" /\ obs.acted
  /\ editor.undoStack = <<>>
  /\ Len(editor.redoStack) = 1
  /\ ~Top(editor.redoStack).isInsert
  /\ Top(editor.redoStack).groupID = 0
  /\ Len(Content(editor)) = Len(obs.base) + 1
  /\ ~pending(editor)

(* ------------------------------- C23 ---------------------------------- *)
\* The editor as it reads its next input after the step.
ReadingNext == [editor' EXCEPT !.replayFailed = FALSE, !.replayContinued = FALSE]

\* C23: when a press of the Delete key that deleted a rune is followed, less
\* than deleteThreshold ms later, by another that deletes a rune too, the two
\* deletions are one batch: the second press pushes nothing, the batch
\* holds both records, and a single undo restores the content as it was
\* before the first press.
C23_DeleteRunIsOneAction ==
  [][(/\ obs.key = "delete" /\ pending(editor)
      /\ obs'.key = "delete"
      /\ Quick < deleteThreshold
      /\ editor' = handleEscapeDelete(Reading, Quick)
      /\ Content(editor') # Content(editor))
       => /\ editor'.undoStack = editor.undoStack
          /\ Len(editor'.deleteEntries) = 2
          /\ Content(handleKeyCtrlU(ReadingNext)) = obs.base]_vars

(* ------------------------------- C24 ---------------------------------- *)
\* The editor after one more press of Backspace, read right after the step.
SecondBackspace ==
  [handleKeyBackspace(ReadingNext)
     EXCEPT !.replayFailed = FALSE, !.replayContinued = FALSE]

\* C24: when a press of Backspace with no selection deletes a rune and a
\* second press, less than backspaceThreshold ms later, deletes another, the
\* two deletions are recorded as one undo action: once everything pending is
\* flushed the undo stack is one action longer than before the first press,
\* and a single undo restores the content as it was before the first press.
C24_BackspaceRunIsOneAction ==
  [][(/\ obs'.key = "backspace"
      /\ ~editor.selectionActive
      /\ Quick < backspaceThreshold
      /\ Len(Content(editor')) = Len(Content(editor)) - 1
      /\ Len(Content(SecondBackspace)) = Len(Content(editor)) - 2)
       => /\ Len(flushEditGroups(SecondBackspace).undoStack)
               = Len(flushEditGroups(Reading).undoStack) + 1
          /\ Content(handleKeyCtrlU(SecondBackspace)) = Content(editor)]_vars

(* ------------------------------- C25 ---------------------------------- *)
\* The action undo() undid last: it pushes every action it undoes on the
\* redo stack, so this is the top of that stack.
LastUndone == Top(editor.redoStack)

\* C25: after an undo that found an action, if the last action it undid is
\* an insertion with at least one record, the cursor is at the insertLine
\* and insertCol of that action's first record.
C25_CursorAtInsertionStart ==
  (obs.key = "undo" /\ obs.acted /\ LastUndone.isInsert /\ LastUndone.ops # <<>>)
    => /\ editor.cursorY = At(LastUndone.ops, 0).insertLine
       /\ editor.cursorX = At(LastUndone.ops, 0).insertCol

\* An undo took back a pasted block of two runes, the second a line break:
\* the paste had left the cursor on the line below, the undo put it back
\* where the block began.
C25_Witness ==
  /\ obs.key = "undo" /\ obs.acted
  /\ LastUndone.isInsert
  /\ Len(LastUndone.ops) = 2
  /\ At(LastUndone.ops, 1).r = NL
  /\ editor.cursorY = At(LastUndone.ops, 0).insertLine
  /\ editor.cursorX = At(LastUndone.ops, 0).insertCol
  /\ Len(Content(editor)) = Len(obs.base) - 2

(* ------------------------------- C26 ---------------------------------- *)
\* The editor after Ctrl+U, pressed right after the step.
UndoneNext == handleKeyCtrlU(ReadingNext)

\* The step is a press of Backspace with no selection that deleted one rune.
PlainBackspaceStep ==
  /\ obs'.key = "backspace"
  /\ ~editor.selectionActive
  /\ Len(Content(editor')) = Len(Content(editor)) - 1

\* The step is a press of the Delete key or a cut that deleted something.
ForwardDeleteOrCutStep ==
  /\ obs'.key \in {"delete", "cut"}
  /\ Len(Content(editor')) < Len(Content(editor))

\* The cursor of e is where the restored text of the action begins.
AtStartOf(e, action) ==
  /\ e.cursorY = At(action.ops, 0).insertLine
  /\ e.cursorX = At(action.ops, 0).insertCol

\* C26: the undo of a plain backspace puts the cursor where it stood before
\* the backspace, just after the restored rune (column clamped to the line as
\* the backspace clamped it); the undo of a forward delete or of a cut puts
\* the cursor at the start of the restored text.
C26_CursorAfterUndoOfDeletion ==
  [][/\ PlainBackspaceStep =>
          /\ UndoneNext.cursorY = editor.cursorY
          /\ UndoneNext.cursorX = min(editor.cursorX, lineLenOf(editor, editor.cursorY))
     /\ ForwardDeleteOrCutStep =>
          AtStartOf(UndoneNext, Top(UndoneNext.redoStack))]_vars

(* ------------------------------- C31 ---------------------------------- *)
\* The rope as the call c, made on rope r, has it when Insert or Delete
\* reaches its final `if r.shouldRebalance()`: the tree and the line index
\* already updated for the edit.
BeforeBalanceCheck(r, c) ==
  LET index == getIndex(r, c.line, c.col).index
  IN IF c.op = "Insert"
     THEN [root |-> insert(r.root, index, c.ru),
           lineStarts |-> updateLineIndexOnInsert(r.lineStarts, index, c.ru)]
     ELSE [root |-> delete(r.root, index - 1),
           lineStarts |-> updateLineIndexOnDelete(r.lineStarts, index - 1,
                                                  RuneAt(r, index - 1).ru)]

\* The step is a successful Insert or Delete that ran rebalance().
Rebalanced ==
  /\ call'.op \in {"Insert", "Delete"} /\ ~call'.err
  /\ shouldRebalance(BeforeBalanceCheck(buffer, call'))

\* C31: when a call rebalances, the content, the total length and
\* lineStarts after rebalance() are those right before it; only the tree
\* differs.
C31_RebalanceKeepsText ==
  [][Rebalanced
       => LET mid == BeforeBalanceCheck(buffer, call')
          IN /\ WriteTo(buffer') = WriteTo(mid)
             /\ length(buffer'.root) = length(mid.root)
             /\ buffer'.lineStarts = mid.lineStarts
             /\ buffer'.root # mid.root]_vars

\* A rebalance has flattened a text of several lines: one leaf longer than
\* a leaf may grow by insertion, and a line index of more than one entry.
C31_Witness ==
  /\ call.op \in {"Insert", "Delete"} /\ ~call.err
  /\ isLeaf(buffer.root)
  /\ Len(buffer.root.data) > maxLeafSize
  /\ Len(buffer.lineStarts) >= 3

(* ------------------------------- C32 ---------------------------------- *)
\* The record's undo position is the position just after its code point.
DelPositionIsAfter(op) ==
  IF op.r = NL
  THEN op.delLine = op.insertLine + 1 /\ op.delCol = 0
  ELSE op.delLine = op.insertLine /\ op.delCol = op.insertCol + 1

\* C32: every record of every insertion action on the undo stack or the
\* redo stack has as its undo position (delLine, delCol) the position just
\* after the inserted code point: (insertLine, insertCol + 1), or
\* (insertLine + 1, 0) for a line break.
C32_DelPositionAfterRune ==
  \A a \in Recorded(editor) :
    a.isInsert => \A k \in 1..Len(a.ops) : DelPositionIsAfter(a.ops[k])

(* ------------------------------- C33 ---------------------------------- *)
\* The editor after Ctrl+U and then Ctrl+Y, pressed right after the step.
RedoneNext ==
  handleKeyCtrlY([UndoneNext EXCEPT !.replayFailed = FALSE, !.replayContinued = FALSE])

\* The step deleted something: a backspace, a press of the Delete key or a
\* cut.
DeletionStep ==
  /\ obs'.key \in {"backspace", "delete", "cut"}
  /\ Len(Content(editor')) < Len(Content(editor))

\* C33: when a deletion is undone and the undo has put the content back as
\* it was before the deletion, the redo removes exactly what the deletion had
\* removed: the content is again what the deletion left.
C33_RedoOfDeletion ==
  [][(DeletionStep /\ Content(UndoneNext) = Content(editor))
       => Content(RedoneNext) = Content(editor')]_vars

(* ------------------------------- C34 ---------------------------------- *)
\* Every internal node of the tree has two children that each hold at
\* least one rune.
RECURSIVE ChildrenNonEmpty(_)
ChildrenNonEmpty(n) ==
  \/ isLeaf(n)
  \/ /\ Size(n.left) >= 1 /\ Size(n.right) >= 1
     /\ ChildrenNonEmpty(n.left) /\ ChildrenNonEmpty(n.right)

\* C34: in every reachable state every internal node has two children of
\* length at least 1, and an empty document is a single empty leaf.
C34_NoEmptyChild ==
  /\ ChildrenNonEmpty(buffer.root)
  /\ Size(buffer.root) = 0 => buffer.root = Leaf(<<>>)

\* A Delete has left a tree of depth two in which a leaf holds a single
\* rune: one more Delete there empties it.
C34_Witness ==
  /\ call.op = "Delete" /\ ~call.err
  /\ ~isLeaf(buffer.root)
  /\ \/ /\ buffer.root.left = Leaf(<<NL>>) /\ ~isLeaf(buffer.root.right)
     \/ /\ buffer.root.right = Leaf(<<NL>>) /\ ~isLeaf(buffer.root.left)

(* ------------------------------- C35 ---------------------------------- *)
\* Longest text of the documents with '\r' that lines are deleted from.
MaxCRLFLen == 3

\* A rope constructed from a text that may hold '\r', as a file with CRLF
\* line ends does, then Delete calls.
InitCRLF ==
  /\ \E text \in SeqsUpTo({"a", CR, NL}, MaxCRLFLen) : RopeIs(text)
  /\ editor = NewEditor(<<>>)
  /\ obs = NoObs

SpecCRLF == InitCRLF /\ [][RopeDelete]_vars

\* C35: Delete(n, 0) for a line n >= 1 of the document succeeds, LineCount
\* drops by one, GetLine(n - 1) becomes the old line n - 1 followed by the
\* old line n, and every other line keeps its text (the lines after n one
\* place up).
C35_DeleteJoinsLines ==
  [][(/\ call'.op = "Delete" /\ call'.col = 0
      /\ call'.line \in 1..(LineCount(buffer) - 1))
       => LET n == call'.line
          IN /\ ~call'.err
             /\ LineCount(buffer') = LineCount(buffer) - 1
             /\ GetLine(buffer', n - 1) = GetLine(buffer, n - 1) \o GetLine(buffer, n)
             /\ \A k \in 0..(n - 2) : GetLine(buffer', k) = GetLine(buffer, k)
             /\ \A k \in (n + 1)..(LineCount(buffer) - 1) :
                  GetLine(buffer', k - 1) = GetLine(buffer, k)]_vars

(* ------------------------------- C36 ---------------------------------- *)
\* The position just after the rune that the call c, an Insert made on rope
\* r, has inserted: the column is the one getIndex clamped c.col to.
AfterInserted(r, c) ==
  LET clampedCol == getIndex(r, c.line, c.col).index - At(r.lineStarts, c.line)
  IN IF c.ru = NL THEN [line |-> c.line + 1, col |-> 0]
     ELSE [line |-> c.line, col |-> clampedCol + 1]

\* The outcome of Delete at that position on the rope r1 the Insert left.
DeleteInserted(r, c, r1) ==
  Delete(r1, AfterInserted(r, c).line, AfterInserted(r, c).col)

\* C36: after a successful Insert, Delete at the position just after the
\* inserted rune succeeds and gives back the content and the lineStarts the
\* rope had before the Insert.
C36_InsertThenDelete ==
  [][(call'.op = "Insert" /\ ~call'.err)
       => LET undone == DeleteInserted(buffer, call', buffer')
          IN /\ ~undone.err
             /\ WriteTo(undone.r) = WriteTo(buffer)
             /\ undone.r.lineStarts = buffer.lineStarts]_vars

\* An Insert put a line break, at a column clamped to the end of its line,
\* into a document of several lines held by a tree of several leaves, and
\* the Delete of that line break gives the earlier document back.
C36_Witness ==
  /\ call.op = "Insert" /\ ~call.err /\ call.ru = NL
  /\ ~isLeaf(buffer.root)
  /\ Len(before.lineStarts) >= 2
  /\ call.col > RefLineLen(before.text, call.line)
  /\ WriteTo(Delete(buffer, call.line + 1, 0).r) = before.text
  /\ Delete(buffer, call.line + 1, 0).r.lineStarts = before.lineStarts

(* ------------------------------- C37 ---------------------------------- *)
\* How many times the action a is held by the two stacks of e together.
Held(e, a) ==
  Cardinality({i \in 1..Len(e.undoStack) : e.undoStack[i] = a})
    + Cardinality({i \in 1..Len(e.redoStack) : e.redoStack[i] = a})

\* The editor at the entry of undo() or redo(): the cases of handleKey for
\* Ctrl+U and Ctrl+Y flush the pending batches before they make the call.
AtEntry == flushEditGroups(Reading)

\* C37: across undo() and across redo() the two stacks together hold the
\* same actions, each as many times as at the entry of the call; undo() with
\* an empty undo stack and redo() with an empty redo stack leave both stacks
\* and the content as they were.
C37_ActionsOnlyMove ==
  [][(obs'.key \in {"undo", "redo"})
       => /\ \A a \in Recorded(AtEntry) \cup Recorded(editor') :
               Held(editor', a) = Held(AtEntry, a)
          /\ Len(editor'.undoStack) + Len(editor'.redoStack)
               = Len(AtEntry.undoStack) + Len(AtEntry.redoStack)
          /\ ((obs'.key = "undo" /\ AtEntry.undoStack = <<>>)
                \/ (obs'.key = "redo" /\ AtEntry.redoStack = <<>>))
               => /\ editor'.undoStack = AtEntry.undoStack
                  /\ editor'.redoStack = AtEntry.redoStack
                  /\ Content(editor') = Content(editor)]_vars

\* A redo has moved the one action of the redo stack back on top of an
\* older, different action of the undo stack.
C37_Witness ==
  /\ obs.key = "redo" /\ obs.acted
  /\ Len(editor.undoStack) >= 2
  /\ editor.redoStack = <<>>
  /\ Top(editor.undoStack) # Top(Pop(editor.undoStack))

(* ------------------------------- C38 ---------------------------------- *)
\* An editor that is typed into, with undo and redo, and whose display
\* options are toggled in between.
NextCommands ==
  \/ KeyTyping \/ KeyBackspace
  \/ KeyToggleLineNumbers \/ KeyToggleNonPrintable
  \/ KeyUndo \/ KeyRedo

SpecCommands == InitEditor /\ [][NextCommands]_vars

\* C38: a command that leaves the document alone (here the two display
\* toggles) leaves the redo stack as it was, so the redo that follows
\* re-applies what the redo before the command would have re-applied.
C38_CommandsKeepRedo ==
  [][(obs'.key \in {"toggleLineNumbers", "toggleNonPrintable"})
       => /\ Content(editor') = Content(editor)
          /\ editor'.redoStack = editor.redoStack
          /\ Content(handleKeyCtrlY(ReadingNext)) = Content(handleKeyCtrlY(Reading))]_vars

(* ------------------------------- C39 ---------------------------------- *)
\* C39: a press of Backspace with no selection and the cursor at column 0 of
\* a line L >= 1 leaves the cursor on line L - 1, at the column that was the
\* length of line L - 1 before the two lines were joined.
C39_CursorAtJoinPoint ==
  [][(/\ obs'.key = "backspace"
      /\ ~editor.selectionActive
      /\ editor.cursorX = 0
      /\ editor.cursorY \in 1..(LineCount(editor.buffer) - 1))
       => /\ editor'.cursorY = editor.cursorY - 1
          /\ editor'.cursorX = lineLenOf(editor, editor.cursorY - 1)]_vars

====
